---- MODULE Spec2Model ----
(***************************************************************************)
(* State-machine model of the resilience layer of fusion_client:           *)
(*   utils/cache.py   FusionCache (TTL + LRU response cache)               *)
(*   utils/retry.py   RateLimiter, with_retry, CircuitBreaker              *)
(* Each component has its own specification (SpecCache, SpecKey, SpecRate, *)
(* SpecRetry, SpecBreaker); the variables of the other components stay at  *)
(* their initial values.  Time is an integer clock `now`, advanced by the  *)
(* environment.                                                            *)
(***************************************************************************)
EXTENDS Integers, Sequences, FiniteSets, TLC

VARIABLES
    now,            \* time.time(), in clock ticks
    \* ---- FusionCache (utils/cache.py)
    ttl,            \* self.ttl
    max_size,       \* self.max_size
    cache,          \* self._cache: key -> [value, timestamp]
    access_times,   \* self._access_times: dict in insertion order, <<[key, t]>>
    cop,            \* the last cache call: its name, argument and what it evicted
    cret,           \* the value the last cache call returned
    lock,           \* self._lock: the thread that holds it, or "free"
    cthread,        \* each thread's cache call: the method, its arguments and
                    \* the statement it has reached
    csnap,          \* the two dicts as they were when the lock was last taken
    \* ---- FusionCache._generate_key
    kreq,           \* two requests [method, url, params]
    kkeys,          \* the keys _generate_key returned for them
    \* ---- RateLimiter (utils/retry.py)
    max_calls,      \* self.max_calls
    window,         \* self.window
    calls,          \* self.calls: deque of the recorded call times
    rcaller,        \* each caller's acquire(): where it is, when its sleep ends,
                    \* its arrival number, how often and how long it has slept
    admitted,       \* log of the acquire() calls that returned, in order
    issued,         \* the number of acquire() calls made so far
    rquery,         \* the last can_proceed() / time_until_available() and its result
    \* ---- with_retry (utils/retry.py)
    max_attempts,   \* the decorator's arguments
    backoff_factor,
    max_backoff,
    exceptions,     \* the error kinds the except clause catches
    jitter,
    rtpc,           \* where the wrapper is: "loop", "sleeping", "returned", "raised"
    attempt,        \* the loop variable
    last_exception,
    oplog,          \* what each call of the wrapped operation did, in order
    call_times,     \* when each call of the wrapped operation was made
    rsleeps,        \* the delays passed to asyncio.sleep, in order
    rtresult,       \* what the wrapper returned or raised
    \* ---- CircuitBreaker (utils/retry.py)
    threshold,      \* self.threshold
    timeout,        \* self.timeout
    failure_count,  \* self.failure_count
    last_failure_time, \* self.last_failure_time
    state,          \* self.state: "closed", "open", "half-open"
    bcaller,        \* each task's execute(): where it is, the state that let it
                    \* in and when
    bop,            \* the last step of an execute() call
    bhist,          \* how the wrapped operations ended, in order: "ok" or "fail"
    bissued,        \* the number of execute() calls made so far
    \* ---- StreamingParser, TokenStreamer (utils/streaming.py)
    sstream,        \* the bytes of the response body
    spos,           \* how many of them aiter_bytes() has handed over
    sbuffer,        \* self.buffer
    sevents,        \* the events parse_stream has yielded, in order
    stokens,        \* the tokens stream_tokens has yielded, in order
    spc,            \* "running", "ended", "broke" (on done), "raised"
    smode,          \* who iterates parse_stream: "events" the caller itself,
                    \* "tokens" TokenStreamer.stream_tokens
    scalls,         \* the number of parse_stream calls made on this parser
    sskip,          \* the last chunk that failed to decode: where it ended, the
                    \* buffer and the number of events yielded at that time
    \* ---- TokenStreamer._extract_token
    xdata,          \* the payload passed to _extract_token
    xtoken,         \* what it returned
    \* ---- HTTPClient (core/http.py)
    max_retries,    \* self.max_retries
    hcache,         \* whether self.cache is a FusionCache (FALSE: None)
    hreq,           \* the request in progress or last made: [op, method, url, use_cache]
    hpc,            \* "idle", "calling" (in _make_request, before the network
                    \* call), "sleeping" (with_retry's backoff), "opening",
                    \* "streaming" (stream_post), "returned", "raised"
    hattempt,       \* with_retry's loop variable
    hlast,          \* with_retry's last_exception
    hcalls,         \* the network calls made for this request
    hstatus,        \* the status of the last response received (0: none)
    hchunks,        \* the body chunks stream_post has yielded
    hresult,        \* what the request returned or raised
    hdone,          \* the number of requests that have ended
    hfailrun,       \* how many requests in a row have ended in an error
    \* ---- HTTPClient._handle_http_error
    eresponse,      \* the response passed to _handle_http_error
    eraised,        \* what it raised
    \* ---- StreamBuffer (utils/streaming.py)
    bmax_size,      \* self.max_size
    bqueue,         \* self.buffer: the items of the asyncio.Queue
    bputters,       \* the queue's waiting put() calls, in order
    bclosed,        \* self.closed
    bprod,          \* each producer's put(): where it is and its item
    bcons,          \* the consumer: where it is in get_all()
    bnext,          \* the number of put() calls made so far
    bgot,           \* the items handed to the consumer, in order
    bput,           \* the items that entered the queue, in order
    bcut,           \* how many had entered it when close() was called
    \* ---- FusionClient (core/client.py) on top of HTTPClient
    fpc,            \* where the caller's rate-limit admission stands
    fwake,          \* when the sleep of with_retry's backoff ends
    sent            \* the times of the network calls made, in order

cacheVars == <<ttl, max_size, cache, access_times, cop, cret, lock, cthread, csnap>>
keyVars == <<kreq, kkeys>>
rateVars == <<max_calls, window, calls, rcaller, admitted, issued, rquery>>
retryVars == <<max_attempts, backoff_factor, max_backoff, exceptions, jitter, rtpc,
               attempt, last_exception, oplog, call_times, rsleeps, rtresult>>
breakerVars == <<threshold, timeout, failure_count, last_failure_time, state,
                 bcaller, bop, bhist, bissued>>
sseVars == <<sstream, spos, sbuffer, sevents, stokens, spc, smode, sskip, scalls>>
tokenVars == <<xdata, xtoken>>
httpVars == <<max_retries, hcache, hreq, hpc, hattempt, hlast, hcalls, hstatus, hchunks,
              hresult, hdone, hfailrun>>
errVars == <<eresponse, eraised>>
bufVars == <<bmax_size, bqueue, bputters, bclosed, bprod, bcons, bnext, bgot, bput,
             bcut>>
clientVars == <<fpc, fwake, sent>>
vars == <<now, cacheVars, keyVars, rateVars, retryVars, breakerVars, sseVars, tokenVars,
          httpVars, errVars, bufVars, clientVars>>

(***************************************************************************)
(* Bounds                                                                  *)
(***************************************************************************)
MaxCacheTime == 3
MaxTtl == 1
MaxCacheSize == 2
MaxParams == 2
MaxRateTime == 5
MaxCalls == 2
MaxWindow == 2
MaxAcquires == 4
MaxAttempts == 3
MaxBackoffFactor == 2
MaxBackoffCap == 4
JitterDen == 4
MaxOverhead == 1
MaxBreakerTime == 5
MaxThreshold == 2
MaxBreakerTimeout == 2
MaxExecs == 5
MaxLines == 2
MaxChunkLen == 4
MaxRetries == 2
MaxRequests == 2
MaxChunks == 2
MaxHttpTime == 2
MaxPuts == 4
MaxBufSize == 2
MaxClientTime == 12

CacheKeys == {"k1", "k2", "k3"}
CacheValues == {"v1", "v2"}
None == "None"

Min(S) == CHOOSE x \in S : \A y \in S : x <= y
Max(S) == CHOOSE x \in S : \A y \in S : x >= y
Range(s) == {s[i] : i \in 1..Len(s)}

(***************************************************************************)
(* FusionCache                                                             *)
(***************************************************************************)
\* A store is the pair of dicts [c |-> _cache, a |-> _access_times].
Store == [c |-> cache, a |-> access_times]

AccessKeys(a) == {a[i].key : i \in 1..Len(a)}
AccessTime(a, k) == (CHOOSE e \in Range(a) : e.key = k).t

\* dict[k] = v : an existing key keeps its position, a new key goes last.
DictPut(a, k, t) ==
    IF k \in AccessKeys(a)
    THEN [i \in 1..Len(a) |-> IF a[i].key = k THEN [key |-> k, t |-> t] ELSE a[i]]
    ELSE Append(a, [key |-> k, t |-> t])

\* self._cache.pop(key, None); self._access_times.pop(key, None)
PopKey(st, k) ==
    [c |-> [j \in DOMAIN st.c \ {k} |-> st.c[j]],
     a |-> SelectSeq(st.a, LAMBDA e : e.key # k)]

RECURSIVE PopKeys(_, _)
PopKeys(st, ks) ==
    IF ks = {} THEN st
    ELSE LET k == CHOOSE x \in ks : TRUE IN PopKeys(PopKey(st, k), ks \ {k})

\* (mutant) an entry expires as soon as its age reaches ttl
IsExpiredAtTtl(timestamp) == now - timestamp >= ttl

\* _is_expired
IsExpired(timestamp) == now - timestamp > ttl

\* the expired_keys of _evict_expired
ExpiredKeys(st) == {k \in DOMAIN st.c : now - st.c[k].timestamp > ttl}

\* _evict_expired
EvictExpired(st) == PopKeys(st, ExpiredKeys(st))

\* (mutant) the most recently used key is chosen
MruKey(a) ==
    LET m == Max({a[i].t : i \in 1..Len(a)})
        i == Max({j \in 1..Len(a) : a[j].t = m})
    IN a[i].key

\* min(self._access_times.keys(), key=...): the first key, in dict order, of
\* the smallest access time.
LruKey(a) ==
    LET m == Min({a[i].t : i \in 1..Len(a)})
        i == Min({j \in 1..Len(a) : a[j].t = m})
    IN a[i].key

\* _evict_lru
EvictLru(st) == IF st.a = <<>> THEN st ELSE PopKey(st, LruKey(st.a))

\* (mutant) the loop stops one entry too early
AtCapacityStrict(st) == Cardinality(DOMAIN st.c) > max_size

\* the condition of set's while loop
AtCapacity(st) == Cardinality(DOMAIN st.c) >= max_size

\* while len(self._cache) >= self.max_size: self._evict_lru()
\* (max_size >= 1 here: with max_size <= 0 the loop never ends.)
RECURSIVE EvictWhileFull(_)
EvictWhileFull(st) ==
    IF AtCapacity(st) /\ st.a # <<>> THEN EvictWhileFull(EvictLru(st)) ELSE st

\* the keys the while loop evicts, in order
RECURSIVE LruVictims(_)
LruVictims(st) ==
    IF AtCapacity(st) /\ st.a # <<>>
    THEN <<LruKey(st.a)>> \o LruVictims(EvictLru(st))
    ELSE <<>>

\* the two assignments that end set
StoreItem(st, k, v, t) ==
    [c |-> [j \in DOMAIN st.c \cup {k} |->
               IF j = k THEN [value |-> v, timestamp |-> t] ELSE st.c[j]],
     a |-> DictPut(st.a, k, t)]

\* FusionCache.get
CacheGet(k) ==
    /\ IF k \notin DOMAIN cache
       THEN /\ cret' = None
            /\ cop' = [name |-> "get", key |-> k, expired |-> {}, lru |-> <<>>]
            /\ UNCHANGED <<cache, access_times>>
       ELSE IF IsExpired(cache[k].timestamp)
       THEN /\ cache' = PopKey(Store, k).c
            /\ access_times' = PopKey(Store, k).a
            /\ cret' = None
            /\ cop' = [name |-> "get", key |-> k, expired |-> {k}, lru |-> <<>>]
       ELSE /\ access_times' = DictPut(access_times, k, now)
            /\ cop' = [name |-> "get", key |-> k, expired |-> {}, lru |-> <<>>]
            /\ cret' = cache[k].value
            /\ UNCHANGED cache
    /\ UNCHANGED <<now, ttl, max_size, lock, cthread, csnap>>

\* FusionCache.set
CacheSet(k, v) ==
    LET current_time == now
        s1 == EvictExpired(Store)
        s2 == EvictWhileFull(s1)
        s3 == StoreItem(s2, k, v, current_time)
    IN /\ cache' = s3.c
       /\ access_times' = s3.a
       /\ cop' = [name |-> "set", key |-> k, expired |-> ExpiredKeys(Store),
                  lru |-> LruVictims(s1)]
       /\ cret' = None
       /\ UNCHANGED <<now, ttl, max_size, lock, cthread, csnap>>

\* FusionCache.invalidate
CacheInvalidate(k) ==
    /\ cop' = [name |-> "invalidate", key |-> k, expired |-> {}, lru |-> <<>>]
    /\ IF k \in DOMAIN cache
       THEN /\ cache' = PopKey(Store, k).c
            /\ access_times' = PopKey(Store, k).a
            /\ cret' = "True"
       ELSE /\ cret' = "False"
            /\ UNCHANGED <<cache, access_times>>
    /\ UNCHANGED <<now, ttl, max_size, lock, cthread, csnap>>

\* FusionCache.clear
CacheClear ==
    /\ cache' = <<>>
    /\ access_times' = <<>>
    /\ cop' = [name |-> "clear", key |-> None, expired |-> {}, lru |-> <<>>]
    /\ cret' = None
    /\ UNCHANGED <<now, ttl, max_size, lock, cthread, csnap>>

\* the clock advances between two cache calls
CacheTick ==
    /\ now < MaxCacheTime
    /\ now' = now + 1
    /\ cop' = [name |-> "tick", key |-> None, expired |-> {}, lru |-> <<>>]
    /\ UNCHANGED <<ttl, max_size, cache, access_times, cret, lock, cthread, csnap>>

(***************************************************************************)
(* FusionCache called from several threads.  A call waits for self._lock,  *)
(* runs the body of its method one statement at a time (the two dicts are  *)
(* changed by separate statements) and releases the lock with its last     *)
(* statement.  A method's body takes no time on the clock.                 *)
(***************************************************************************)
CacheThreads == {"th1", "th2"}
ThreadKeys == {"k1", "k2"}
ThreadOps == {"get", "set", "invalidate", "clear", "stats"}
Free == "free"

NoThread == [pc |-> "idle", op |-> "none", key |-> None, value |-> None, todo |-> <<>>]
NoSnap == [c |-> <<>>, a |-> <<>>]

\* the keys of a set, one after the other
RECURSIVE KeyList(_)
KeyList(ks) ==
    IF ks = {} THEN <<>>
    ELSE LET k == CHOOSE x \in ks : TRUE IN <<k>> \o KeyList(ks \ {k})

\* self._cache.pop(key, None)
CachePop(c, k) == [j \in DOMAIN c \ {k} |-> c[j]]

\* self._access_times.pop(key, None)
AccessPop(a, k) == SelectSeq(a, LAMBDA e : e.key # k)

\* the thread leaves the `with self._lock:` block and its call returns
Release(t) ==
    /\ lock' = Free
    /\ csnap' = NoSnap
    /\ cthread' = [cthread EXCEPT ![t] = NoThread]

\* the thread goes on to the statement pc, the lock held
GoTo(t, pc) ==
    /\ cthread' = [cthread EXCEPT ![t].pc = pc]
    /\ UNCHANGED <<lock, csnap>>

\* a thread calls get, set, invalidate, clear or stats
ThreadCall(t, op, k, v) ==
    /\ cthread[t].pc = "idle"
    /\ cthread' = [cthread EXCEPT ![t] =
          [pc |-> "waiting", op |-> op, key |-> k, value |-> v, todo |-> <<>>]]
    /\ UNCHANGED <<now, ttl, max_size, cache, access_times, cop, cret, lock, csnap>>

\* (mutant) the lock is taken although another thread holds it
ThreadLockNoWait(t) ==
    /\ cthread[t].pc = "waiting"
    /\ lock' = t
    /\ csnap' = Store
    /\ cthread' = [cthread EXCEPT ![t].pc = "body"]
    /\ UNCHANGED <<now, ttl, max_size, cache, access_times, cop, cret>>

\* with self._lock:
ThreadLock(t) ==
    /\ cthread[t].pc = "waiting"
    /\ lock = Free
    /\ lock' = t
    /\ csnap' = Store
    /\ cthread' = [cthread EXCEPT ![t].pc = "body"]
    /\ UNCHANGED <<now, ttl, max_size, cache, access_times, cop, cret>>

\* the next statement of get
ThreadGet(t) ==
    LET k == cthread[t].key
    IN /\ cthread[t].op = "get"
       /\ \/ /\ cthread[t].pc = "body"
             /\ IF k \notin DOMAIN cache
                THEN \* return None
                     /\ Release(t)
                     /\ UNCHANGED <<cache, access_times>>
                ELSE IF IsExpired(cache[k].timestamp)
                THEN \* self._cache.pop(key, None)
                     /\ cache' = CachePop(cache, k)
                     /\ GoTo(t, "pop_access")
                     /\ UNCHANGED access_times
                ELSE \* self._access_times[key] = time.time(); return value
                     /\ access_times' = DictPut(access_times, k, now)
                     /\ Release(t)
                     /\ UNCHANGED cache
          \/ /\ cthread[t].pc = "pop_access"
             \* self._access_times.pop(key, None); return None
             /\ access_times' = AccessPop(access_times, k)
             /\ Release(t)
             /\ UNCHANGED cache

\* the next statement of set
ThreadSet(t) ==
    LET k == cthread[t].key
        todo == cthread[t].todo
    IN /\ cthread[t].op = "set"
       /\ \/ /\ cthread[t].pc = "body"
             \* expired_keys = [...]
             /\ cthread' = [cthread EXCEPT ![t].pc = "evict_expired",
                                           ![t].todo = KeyList(ExpiredKeys(Store))]
             /\ UNCHANGED <<cache, access_times, lock, csnap>>
          \/ /\ cthread[t].pc = "evict_expired"
             /\ IF todo # <<>>
                THEN \* self._cache.pop(key, None)
                     /\ cache' = CachePop(cache, Head(todo))
                     /\ GoTo(t, "evict_expired_access")
                     /\ UNCHANGED access_times
                ELSE IF AtCapacity(Store) /\ access_times # <<>>
                THEN \* _evict_lru: self._cache.pop(lru_key, None)
                     /\ cache' = CachePop(cache, LruKey(access_times))
                     /\ cthread' = [cthread EXCEPT ![t].pc = "evict_lru_access",
                                                   ![t].todo = <<LruKey(access_times)>>]
                     /\ UNCHANGED <<access_times, lock, csnap>>
                ELSE IF AtCapacity(Store)
                THEN \* _evict_lru returns at once and the while loop goes round
                     /\ UNCHANGED <<cache, access_times, lock, csnap, cthread>>
                ELSE \* self._cache[key] = (value, current_time)
                     /\ cache' = [j \in DOMAIN cache \cup {k} |->
                                    IF j = k THEN [value |-> cthread[t].value, timestamp |-> now]
                                    ELSE cache[j]]
                     /\ GoTo(t, "store_access")
                     /\ UNCHANGED access_times
          \/ /\ cthread[t].pc = "evict_expired_access"
             \* self._access_times.pop(key, None)
             /\ access_times' = AccessPop(access_times, Head(todo))
             /\ cthread' = [cthread EXCEPT ![t].pc = "evict_expired", ![t].todo = Tail(todo)]
             /\ UNCHANGED <<cache, lock, csnap>>
          \/ /\ cthread[t].pc = "evict_lru_access"
             \* self._access_times.pop(lru_key, None)
             /\ access_times' = AccessPop(access_times, Head(todo))
             /\ cthread' = [cthread EXCEPT ![t].pc = "evict_expired", ![t].todo = <<>>]
             /\ UNCHANGED <<cache, lock, csnap>>
          \/ /\ cthread[t].pc = "store_access"
             \* self._access_times[key] = current_time
             /\ access_times' = DictPut(access_times, k, now)
             /\ Release(t)
             /\ UNCHANGED cache

\* the next statement of invalidate
ThreadInvalidate(t) ==
    LET k == cthread[t].key
    IN /\ cthread[t].op = "invalidate"
       /\ \/ /\ cthread[t].pc = "body"
             /\ IF k \in DOMAIN cache
                THEN \* self._cache.pop(key)
                     /\ cache' = CachePop(cache, k)
                     /\ GoTo(t, "pop_access")
                     /\ UNCHANGED access_times
                ELSE \* return False
                     /\ Release(t)
                     /\ UNCHANGED <<cache, access_times>>
          \/ /\ cthread[t].pc = "pop_access"
             \* self._access_times.pop(key, None); return True
             /\ access_times' = AccessPop(access_times, k)
             /\ Release(t)
             /\ UNCHANGED cache

\* the next statement of clear
ThreadClear(t) ==
    /\ cthread[t].op = "clear"
    /\ \/ /\ cthread[t].pc = "body"
          \* self._cache.clear()
          /\ cache' = <<>>
          /\ GoTo(t, "clear_access")
          /\ UNCHANGED access_times
       \/ /\ cthread[t].pc = "clear_access"
          \* self._access_times.clear()
          /\ access_times' = <<>>
          /\ Release(t)
          /\ UNCHANGED cache

\* stats: the dict of counts is built and returned
ThreadStats(t) ==
    /\ cthread[t].op = "stats"
    /\ cthread[t].pc = "body"
    /\ Release(t)
    /\ UNCHANGED <<cache, access_times>>

\* the thread that holds the lock runs its next statement
ThreadStep(t) ==
    /\ lock = t
    /\ \/ ThreadGet(t)
       \/ ThreadSet(t)
       \/ ThreadInvalidate(t)
       \/ ThreadClear(t)
       \/ ThreadStats(t)
    /\ UNCHANGED <<now, ttl, max_size, cop, cret>>

\* the clock advances while no method body runs, until an entry stored at
\* the start has expired
ThreadTick ==
    /\ lock = Free
    /\ now <= ttl
    /\ now' = now + 1
    /\ UNCHANGED cacheVars

\* FusionCache.__init__
CacheInit ==
    /\ lock = Free
    /\ cthread = [t \in CacheThreads |-> NoThread]
    /\ csnap = NoSnap
    /\ cache = <<>>
    /\ access_times = <<>>
    /\ cop = [name |-> "init", key |-> None, expired |-> {}, lru |-> <<>>]
    /\ cret = None

\* a cache that is constructed and never used
CacheIdle == ttl = 1 /\ max_size = 1 /\ CacheInit

(***************************************************************************)
(* FusionCache._generate_key                                               *)
(*                                                                         *)
(* A params dict is a sequence of [name, value] items in insertion *)
(* order, the names distinct.  A value is a str ([t |-> "str"]), an int    *)
(* ([t |-> "int"]) or an object json cannot serialise ([t |-> "obj"], e.g. *)
(* a Decimal or a UUID); s is the text str() gives for it.  Strings are    *)
(* free of characters that json escapes.                                   *)
(***************************************************************************)
ParamNames == <<"a", "b", "c">>          \* in lexicographic order
ParamValues ==
    { [t |-> "str", s |-> "1"], [t |-> "int", s |-> "1"], [t |-> "obj", s |-> "1"],
      [t |-> "str", s |-> "2"] }
KeyMethods == {"GET", "POST"}
KeyUrls == {"/chat", "/agents"}

NameRank(n) == CHOOSE i \in 1..Len(ParamNames) : ParamNames[i] = n

\* sorted(items, key=name): insertion sort on the names
RECURSIVE InsertItem(_, _)
InsertItem(sorted, e) ==
    IF sorted = <<>> THEN <<e>>
    ELSE IF NameRank(e.name) < NameRank(Head(sorted).name)
         THEN <<e>> \o sorted
         ELSE <<Head(sorted)>> \o InsertItem(Tail(sorted), e)

RECURSIVE SortedItems(_)
SortedItems(p) ==
    IF p = <<>> THEN <<>>
    ELSE InsertItem(SortedItems(SubSeq(p, 1, Len(p) - 1)), p[Len(p)])

\* (mutant) json.dumps without sort_keys: the items in insertion order
ItemsAsInserted(p) == p

\* the order in which json.dumps(..., sort_keys=True) writes the items
JsonItems(p) == SortedItems(p)

\* default=str: what json.dumps makes of a value it cannot serialise
JsonDefault(v) == [t |-> "str", s |-> v.s]

\* the json text of a value
RECURSIVE JsonValue(_)
JsonValue(v) ==
    CASE v.t = "int" -> v.s
      [] v.t = "str" -> "\"" \o v.s \o "\""
      [] OTHER -> JsonValue(JsonDefault(v))

JsonItem(e) == "\"" \o e.name \o "\": " \o JsonValue(e.value)

RECURSIVE JsonJoin(_)
JsonJoin(items) ==
    IF items = <<>> THEN ""
    ELSE IF Len(items) = 1 THEN JsonItem(items[1])
    ELSE JsonItem(items[1]) \o ", " \o JsonJoin(Tail(items))

\* json.dumps(params, sort_keys=True, default=str)
JsonDumps(p) == "{" \o JsonJoin(JsonItems(p)) \o "}"

\* hashlib.md5(data).hexdigest(): a digest, taken to be free of collisions
Md5Hex(data) == "md5<" \o data \o ">"

\* an Optional[Dict]: None, or a dict
NoParams == [given |-> FALSE, items |-> <<>>]
SomeParams(d) == [given |-> TRUE, items |-> d]

\* params = params or {}
ParamsOrEmpty(p) == IF ~p.given \/ p.items = <<>> THEN <<>> ELSE p.items

\* FusionCache._generate_key
GenerateKey(method, url, params) ==
    Md5Hex(method \o ":" \o url \o ":" \o JsonDumps(ParamsOrEmpty(params)))

\* the dicts of at most MaxParams items
RECURSIVE DictsOfLen(_)
DictsOfLen(n) ==
    IF n = 0 THEN {<<>>}
    ELSE { Append(d, [name |-> ParamNames[i], value |-> v]) :
             d \in {x \in DictsOfLen(n - 1) : TRUE},
             i \in 1..Len(ParamNames), v \in ParamValues }
ParamDicts ==
    { d \in UNION {DictsOfLen(n) : n \in 0..MaxParams} :
        \A i, j \in 1..Len(d) : d[i].name = d[j].name => i = j }

\* the dict as a mapping, whatever its insertion order
DictItems(p) == Range(ParamsOrEmpty(p))

\* the second request is the first one with its params reordered, with one
\* value replaced, or with another method or url
KeyVariants(r) ==
    { [r EXCEPT !.params = SomeParams(q)] :
        q \in { d \in ParamDicts :
                  /\ {e.name : e \in Range(d)} = {e.name : e \in DictItems(r.params)}
                  /\ Cardinality(Range(d) \ DictItems(r.params)) <= 1 } }
    \cup { [r EXCEPT !.method = m, !.url = u] : m \in KeyMethods, u \in KeyUrls }
    \cup { [r EXCEPT !.params = NoParams] }

KeyIdle == kreq = <<>> /\ kkeys = <<>>

(***************************************************************************)
(* RateLimiter                                                             *)
(*                                                                         *)
(* One clock tick is 0.1 s, the buffer acquire adds to its sleep.  A       *)
(* caller runs acquire() without suspension from its entry, or from its    *)
(* wake-up, to its sleep or its return (asyncio: no await in between).     *)
(***************************************************************************)
RateBuffer == 1
RateCallers == {"t1", "t2", "t3"}

NoCall == [pc |-> "idle", wake |-> 0, seq |-> 0, sleeps |-> 0, slept |-> 0, mark |-> 0]

\* (mutant) a call leaves the window as soon as its age reaches window
RECURSIVE TrimAtWindow(_)
TrimAtWindow(q) ==
    IF q # <<>> /\ now - Head(q) >= window THEN TrimAtWindow(Tail(q)) ELSE q

\* while self.calls and now - self.calls[0] > self.window: self.calls.popleft()
RECURSIVE Trim(_)
Trim(q) ==
    IF q # <<>> /\ now - Head(q) > window THEN Trim(Tail(q)) ELSE q

\* (mutant) the buffer is left out of the sleep
SleepTimeNoBuffer(q) == window - (now - Head(q))

\* sleep_time = self.window - (now - self.calls[0]) + 0.1
SleepTime(q) == window - (now - Head(q)) + RateBuffer

\* The body of acquire(), run by caller c whose call has arrival number seq
\* and has slept `sleeps` times so far.
AcquireBody(c, seq, sleeps, slept) ==
    LET q == Trim(calls)
    IN IF Len(q) >= max_calls /\ q = <<>>
       THEN \* self.calls[0] on an empty deque: IndexError
            /\ calls' = q
            /\ rcaller' = [rcaller EXCEPT ![c] =
                  [pc |-> "error", wake |-> 0, seq |-> seq, sleeps |-> sleeps,
                   slept |-> slept, mark |-> Len(admitted)]]
            /\ UNCHANGED admitted
       ELSE IF Len(q) >= max_calls /\ SleepTime(q) > 0
       THEN \* await asyncio.sleep(sleep_time); return await self.acquire()
            /\ calls' = q
            /\ rcaller' = [rcaller EXCEPT ![c] =
                  [pc |-> "sleeping", wake |-> now + SleepTime(q), seq |-> seq,
                   sleeps |-> sleeps + 1, slept |-> SleepTime(q),
                   mark |-> Len(admitted)]]
            /\ UNCHANGED admitted
       ELSE \* self.calls.append(now)
            /\ calls' = Append(q, now)
            /\ rcaller' = [rcaller EXCEPT ![c] =
                  [pc |-> "idle", wake |-> 0, seq |-> seq, sleeps |-> sleeps,
                   slept |-> slept, mark |-> Len(admitted)]]
            /\ admitted' = Append(admitted, [t |-> now, seq |-> seq, sleeps |-> sleeps])

\* a caller calls acquire()
RateAcquire(c) ==
    /\ rcaller[c].pc = "idle"
    /\ issued < MaxAcquires
    /\ issued' = issued + 1
    /\ AcquireBody(c, issued + 1, 0, 0)
    /\ UNCHANGED <<now, max_calls, window, rquery>>

\* (mutant) a caller whose sleep is over sleeps again as long, without
\* running acquire() again
RateWakeSleepsAgain(c) ==
    /\ rcaller[c].pc = "sleeping"
    /\ now >= rcaller[c].wake
    /\ rcaller' = [rcaller EXCEPT ![c].wake = now + rcaller[c].slept]
    /\ UNCHANGED <<now, max_calls, window, calls, admitted, issued, rquery>>

\* asyncio.sleep is over (at its deadline or later): acquire() is run again
RateWake(c) ==
    /\ rcaller[c].pc = "sleeping"
    /\ now >= rcaller[c].wake
    /\ AcquireBody(c, rcaller[c].seq, rcaller[c].sleeps, rcaller[c].slept)
    /\ UNCHANGED <<now, max_calls, window, issued, rquery>>

\* return len(self.calls) < self.max_calls, the expired calls removed
CanProceed(q) == Len(q) < max_calls

\* time_until_available() on the deque q left by its can_proceed():
\* oldest_call = self.calls[0] if self.calls else now;
\* max(0.0, self.window - (now - oldest_call))
TimeUntilAvailable(q) ==
    IF CanProceed(q) THEN 0
    ELSE LET oldest_call == IF q # <<>> THEN Head(q) ELSE now
         IN Max({0, window - (now - oldest_call)})

NoQuery == [op |-> "none", ok |-> FALSE, t |-> 0]

\* can_proceed(): no await, the expired calls are removed
RateCanProceed ==
    /\ rquery.op = "none"
    /\ calls' = Trim(calls)
    /\ rquery' = [op |-> "can_proceed", ok |-> CanProceed(Trim(calls)), t |-> 0]
    /\ UNCHANGED <<now, max_calls, window, rcaller, admitted, issued>>

\* time_until_available(): no await, the expired calls are removed
RateTimeUntilAvailable ==
    /\ rquery.op = "none"
    /\ calls' = Trim(calls)
    /\ rquery' = [op |-> "time_until_available", ok |-> CanProceed(Trim(calls)),
                  t |-> TimeUntilAvailable(Trim(calls))]
    /\ UNCHANGED <<now, max_calls, window, rcaller, admitted, issued>>

\* the caller has taken the value returned
RateQueryReturn ==
    /\ rquery.op # "none"
    /\ rquery' = NoQuery
    /\ UNCHANGED <<now, max_calls, window, calls, rcaller, admitted, issued>>

RateTick ==
    /\ now < MaxRateTime
    /\ now' = now + 1
    /\ UNCHANGED rateVars

\* The clock moves on past MaxRateTime: every recorded time is moved back by
\* one tick instead, so that all ages and remaining sleeps are those of the
\* next tick.  A time that would fall below 0 stays 0: it is older than any
\* window (MaxRateTime > window) and a wake-up time long past.
Earlier(t) == Max({t - 1, 0})

RateTickOn ==
    /\ now = MaxRateTime
    /\ calls' = [i \in 1..Len(calls) |-> Earlier(calls[i])]
    /\ rcaller' = [c \in RateCallers |-> [rcaller[c] EXCEPT !.wake = Earlier(@)]]
    /\ admitted' = [i \in 1..Len(admitted) |-> [admitted[i] EXCEPT !.t = Earlier(@)]]
    /\ UNCHANGED <<now, max_calls, window, issued, rquery>>

\* RateLimiter.__init__
RateInit ==
    /\ calls = <<>>
    /\ rcaller = [c \in RateCallers |-> NoCall]
    /\ admitted = <<>>
    /\ issued = 0
    /\ rquery = NoQuery

RateIdle == max_calls = 1 /\ window = 1 /\ RateInit


(***************************************************************************)
(* with_retry                                                              *)
(*                                                                         *)
(* async_wrapper and sync_wrapper run the same loop; one model serves      *)
(* both.  The wrapped operation returns ("ok") or raises an error of some  *)
(* kind at each call.  Delays and the clock are in units of 1/JitterDen of *)
(* the unit of backoff_factor, so that the jitter factor 0.5 + 0.5 *       *)
(* random() is j / JitterDen for some j with 1/2 <= j / JitterDen <= 1.    *)
(***************************************************************************)
ErrorKinds == {"NetworkError", "ValueError"}
ExceptionChoices == {{"NetworkError"}, {"NetworkError", "ValueError"}}
NoException == [kind |-> "none", id |-> 0]
NoResult == [how |-> "running", what |-> NoException]

\* 0.5 + random.random() * 0.5, as a number of 1/JitterDen
JitterFactors == {j \in 0..JitterDen : 2 * j >= JitterDen}

\* (mutant) the cap max_backoff is not applied
BackoffUncapped(n) == backoff_factor * (2 ^ n)

\* min(backoff_factor * (2 ** attempt), max_backoff)
BackoffBase(n) == Min({backoff_factor * (2 ^ n), max_backoff})

\* the values backoff_time can take when asyncio.sleep is called
BackoffTimes(n) ==
    IF jitter THEN {BackoffBase(n) * j : j \in JitterFactors}
    ELSE {BackoffBase(n) * JitterDen}

\* (mutant) the except clause catches every error
CatchesAll(kind) == TRUE

\* except exceptions as e
Catches(kind) == kind \in exceptions

\* (mutant) the loop gives up one attempt early
LastAttemptEarly(n) == n >= max_attempts - 2

\* if attempt == max_attempts - 1
LastAttempt(n) == n = max_attempts - 1

\* One pass of the loop body: the operation is called; it returns, or raises
\* and the except clause runs up to the sleep or the raise.
RetryCall ==
    /\ rtpc = "loop"
    /\ attempt < max_attempts
    /\ \E kind \in {"ok"} \cup ErrorKinds :
          LET e == [kind |-> kind, id |-> Len(oplog) + 1]
          IN /\ oplog' = Append(oplog, e)
             /\ call_times' = Append(call_times, now)
             /\ IF kind = "ok"
                THEN \* return await func(*args, **kwargs)
                     /\ rtpc' = "returned"
                     /\ rtresult' = [how |-> "returned", what |-> e]
                     /\ UNCHANGED <<last_exception, rsleeps>>
                ELSE IF ~Catches(kind)
                THEN \* not caught: the error leaves the wrapper
                     /\ rtpc' = "raised"
                     /\ rtresult' = [how |-> "raised", what |-> e]
                     /\ UNCHANGED <<last_exception, rsleeps>>
                ELSE IF LastAttempt(attempt)
                THEN \* raise
                     /\ last_exception' = e
                     /\ rtpc' = "raised"
                     /\ rtresult' = [how |-> "raised", what |-> e]
                     /\ UNCHANGED rsleeps
                ELSE \* await asyncio.sleep(backoff_time)
                     /\ last_exception' = e
                     /\ rtpc' = "sleeping"
                     /\ \E d \in BackoffTimes(attempt) : rsleeps' = Append(rsleeps, d)
                     /\ UNCHANGED rtresult
    /\ UNCHANGED <<now, attempt, max_attempts, backoff_factor, max_backoff,
                   exceptions, jitter>>

\* the sleep ends, no earlier than asked; the loop goes to its next pass
RetryWake ==
    /\ rtpc = "sleeping"
    /\ \E overhead \in 0..MaxOverhead :
          now' = now + rsleeps[Len(rsleeps)] + overhead
    /\ attempt' = attempt + 1
    /\ rtpc' = "loop"
    /\ UNCHANGED <<max_attempts, backoff_factor, max_backoff, exceptions, jitter,
                   last_exception, oplog, call_times, rsleeps, rtresult>>

\* the loop is over: if last_exception: raise last_exception; otherwise the
\* function ends and returns None
RetryLoopEnd ==
    /\ rtpc = "loop"
    /\ attempt >= max_attempts
    /\ IF last_exception # NoException
       THEN /\ rtpc' = "raised"
            /\ rtresult' = [how |-> "raised", what |-> last_exception]
       ELSE /\ rtpc' = "returned"
            /\ rtresult' = [how |-> "returned", what |-> [kind |-> "None", id |-> 0]]
    /\ UNCHANGED <<now, max_attempts, backoff_factor, max_backoff, exceptions, jitter,
                   attempt, last_exception, oplog, call_times, rsleeps>>

\* the wrapper is entered
RetryStart ==
    /\ rtpc = "loop"
    /\ attempt = 0
    /\ last_exception = NoException
    /\ oplog = <<>>
    /\ call_times = <<>>
    /\ rsleeps = <<>>
    /\ rtresult = NoResult

RetryIdle ==
    /\ max_attempts = 3 /\ backoff_factor = 1 /\ max_backoff = 1
    /\ exceptions = {} /\ jitter = TRUE
    /\ RetryStart

(***************************************************************************)
(* CircuitBreaker                                                          *)
(*                                                                         *)
(* execute() awaits the wrapped operation between can_execute() and        *)
(* record_success() / record_failure(), so the calls of several tasks      *)
(* overlap: a call is two steps, its admission and the end of its          *)
(* operation.  An operation that ends at once is the two steps in a row.   *)
(* The argument recovery_timeout is stored and never read.                 *)
(***************************************************************************)
BreakerCallers == {"t1", "t2"}
BreakerThresholds == 1..MaxThreshold
BreakerTimeouts == 1..MaxBreakerTimeout

\* last_failure_time = None.  time.time() is never 0, and `if
\* self.last_failure_time and ...` takes None and 0 alike.
NoTime == 0

NoBreakerCall == [pc |-> "idle", via |-> "none", at |-> 0]
NoBreakerOp == [name |-> "none", caller |-> "none", via |-> "none"]

\* (mutant) the circuit opens one failure late
ReachedThresholdLate(n) == n > threshold

\* if self.failure_count >= self.threshold
ReachedThreshold(n) == n >= threshold

\* (mutant) an open circuit lets every call through
TimeoutElapsedAlways == TRUE

\* self.last_failure_time and now - self.last_failure_time > self.timeout
TimeoutElapsed == last_failure_time # NoTime /\ now - last_failure_time > timeout

\* what can_execute() returns
CanExecute ==
    \/ state = "closed"
    \/ state = "open" /\ TimeoutElapsed
    \/ state = "half-open"

\* self.state after can_execute()
CanExecuteState == IF state = "open" /\ TimeoutElapsed THEN "half-open" ELSE state

RecordSuccess ==
    /\ failure_count' = 0
    /\ state' = "closed"
    /\ last_failure_time' = NoTime

RecordFailure ==
    /\ failure_count' = failure_count + 1
    /\ last_failure_time' = now
    /\ state' = IF ReachedThreshold(failure_count + 1) THEN "open" ELSE state

\* execute() up to `await func(...)`, or up to the raise of "Circuit breaker
\* is open"
BreakerExecute(c) ==
    /\ bcaller[c].pc = "idle"
    /\ bissued < MaxExecs
    /\ bissued' = bissued + 1
    /\ IF ~CanExecute
       THEN /\ bop' = [name |-> "reject", caller |-> c, via |-> state]
            /\ UNCHANGED <<state, bcaller>>
       ELSE /\ state' = CanExecuteState
            /\ bcaller' = [bcaller EXCEPT ![c] = [pc |-> "running", via |-> state, at |-> now]]
            /\ bop' = [name |-> "invoke", caller |-> c, via |-> state]
    /\ UNCHANGED <<now, threshold, timeout, failure_count, last_failure_time, bhist>>

\* the operation returns: self.record_success(); return result
BreakerReturn(c) ==
    /\ bcaller[c].pc = "running"
    /\ RecordSuccess
    /\ bcaller' = [bcaller EXCEPT ![c] = NoBreakerCall]
    /\ bop' = [name |-> "success", caller |-> c, via |-> bcaller[c].via]
    /\ bhist' = Append(bhist, "ok")
    /\ UNCHANGED <<now, threshold, timeout, bissued>>

\* the operation raises: self.record_failure(); raise
BreakerRaise(c) ==
    /\ bcaller[c].pc = "running"
    /\ RecordFailure
    /\ bcaller' = [bcaller EXCEPT ![c] = NoBreakerCall]
    /\ bop' = [name |-> "failure", caller |-> c, via |-> bcaller[c].via]
    /\ bhist' = Append(bhist, "fail")
    /\ UNCHANGED <<now, threshold, timeout, bissued>>

BreakerTick ==
    /\ now < MaxBreakerTime
    /\ now' = now + 1
    /\ bop' = [name |-> "tick", caller |-> "none", via |-> "none"]
    /\ UNCHANGED <<threshold, timeout, failure_count, last_failure_time, state,
                   bcaller, bhist, bissued>>

\* __init__
BreakerInit ==
    /\ failure_count = 0
    /\ last_failure_time = NoTime
    /\ state = "closed"
    /\ bcaller = [c \in BreakerCallers |-> NoBreakerCall]
    /\ bop = NoBreakerOp
    /\ bhist = <<>>
    /\ bissued = 0

BreakerIdle == threshold = 1 /\ timeout = 1 /\ BreakerInit

(***************************************************************************)
(* StreamingParser and TokenStreamer (utils/streaming.py)                  *)
(*                                                                         *)
(* A byte is a one-character string, "LF", "CR", or one of the two bytes   *)
(* "C3" "A9" of the UTF-8 encoding of U+00E9.  A str is a sequence of      *)
(* characters: the same symbols, with "U+E9" for the decoded pair.         *)
(* A JSON value and a Python value are records [k, s, n, items]: k is the  *)
(* type, s the characters of a str, n the value of an int, items the       *)
(* members [key, val] of a dict or a list in order.                        *)
(***************************************************************************)
LF == "LF"
CR == "CR"

\* chunk.decode('utf-8') does not raise UnicodeDecodeError
Decodes(b) ==
    \A i \in 1..Len(b) :
        /\ b[i] = "C3" => (i < Len(b) /\ b[i + 1] = "A9")
        /\ b[i] = "A9" => (i > 1 /\ b[i - 1] = "C3")

\* chunk.decode('utf-8'), for a chunk that decodes
Decoded(b) ==
    LET kept == SelectSeq(b, LAMBDA x : x # "C3")
    IN [i \in 1..Len(kept) |-> IF kept[i] = "A9" THEN "U+E9" ELSE kept[i]]

\* '\n' in self.buffer
HasNewline(s) == \E i \in 1..Len(s) : s[i] = LF

\* line, self.buffer = self.buffer.split('\n', 1)
SplitLine(s) ==
    LET n == Min({i \in 1..Len(s) : s[i] = LF})
    IN [line |-> SubSeq(s, 1, n - 1), rest |-> SubSeq(s, n + 1, Len(s))]

RECURSIVE RStripCR(_)
\* line.rstrip('\r')
RStripCR(s) ==
    IF s # <<>> /\ s[Len(s)] = CR THEN RStripCR(SubSeq(s, 1, Len(s) - 1)) ELSE s

\* line.startswith(p)
StartsWith(s, p) == Len(s) >= Len(p) /\ SubSeq(s, 1, Len(p)) = p

\* line[n:]
From(s, n) == SubSeq(s, n + 1, Len(s))

\* the whitespace str.strip(), int() and json.loads skip
Whitespace == {" ", CR, LF}

RECURSIVE LStrip(_)
LStrip(s) == IF s # <<>> /\ s[1] \in Whitespace THEN LStrip(Tail(s)) ELSE s

RECURSIVE RStrip(_)
RStrip(s) ==
    IF s # <<>> /\ s[Len(s)] \in Whitespace THEN RStrip(SubSeq(s, 1, Len(s) - 1)) ELSE s

\* data.strip()
Strip(s) == RStrip(LStrip(s))

DigitChars == <<"0", "1", "2", "3", "4", "5", "6", "7", "8", "9">>
IsDigit(c) == \E d \in 1..10 : DigitChars[d] = c
DigitOf(c) == (CHOOSE d \in 1..10 : DigitChars[d] = c) - 1

RECURSIVE DigitsValue(_)
DigitsValue(s) ==
    IF s = <<>> THEN 0
    ELSE 10 * DigitsValue(SubSeq(s, 1, Len(s) - 1)) + DigitOf(s[Len(s)])

\* int(text): the value, or ValueError (ok = FALSE)
IntParse(text) ==
    LET t == Strip(text)
    IN IF t # <<>> /\ \A i \in 1..Len(t) : IsDigit(t[i])
       THEN [ok |-> TRUE, n |-> DigitsValue(t)]
       ELSE [ok |-> FALSE, n |-> 0]

NoVal == [k |-> "none", s |-> <<>>, n |-> 0, items |-> <<>>]
StrVal(s) == [k |-> "str", s |-> s, n |-> 0, items |-> <<>>]
IntVal(n) == [k |-> "int", s |-> <<>>, n |-> n, items |-> <<>>]
DictVal(items) == [k |-> "dict", s |-> <<>>, n |-> 0, items |-> items]
ListVal(items) == [k |-> "list", s |-> <<>>, n |-> 0, items |-> items]

(***************************************************************************)
(* json.loads for the JSON made of strings without escapes, integers,      *)
(* objects and arrays.  The bytes of the streams below cannot spell the    *)
(* rest of JSON (true, false, null, NaN, fractions, exponents, escapes).   *)
(* A result is [ok, v, i]: whether a value was read, the value, and the    *)
(* index after it.                                                         *)
(***************************************************************************)
JsonError == [ok |-> FALSE, v |-> NoVal, i |-> 0]

RECURSIVE SkipWs(_, _)
SkipWs(s, i) == IF i <= Len(s) /\ s[i] \in Whitespace THEN SkipWs(s, i + 1) ELSE i

\* a string, s[i] being its opening quote
LoadsString(s, i) ==
    LET closes == {j \in (i + 1)..Len(s) : s[j] = "\""}
    IN IF closes = {} THEN JsonError
       ELSE LET j == Min(closes)
                body == SubSeq(s, i + 1, j - 1)
            IN IF \E x \in 1..Len(body) : body[x] \in {CR, LF}
               THEN JsonError
               ELSE [ok |-> TRUE, v |-> StrVal(body), i |-> j + 1]

RECURSIVE DigitsEnd(_, _)
DigitsEnd(s, i) == IF i <= Len(s) /\ IsDigit(s[i]) THEN DigitsEnd(s, i + 1) ELSE i

\* a number, s[i] being its first digit; a number does not start with 0
\* unless it is 0
LoadsNumber(s, i) ==
    LET e == IF s[i] = "0" THEN i + 1 ELSE DigitsEnd(s, i)
    IN [ok |-> TRUE, v |-> IntVal(DigitsValue(SubSeq(s, i, e - 1))), i |-> e]

RECURSIVE LoadsValue(_, _)
RECURSIVE LoadsMembers(_, _, _)
RECURSIVE LoadsElements(_, _, _)

\* the members of an object after "{" or ",", up to its "}"
LoadsMembers(s, i0, acc) ==
    LET i == SkipWs(s, i0)
    IN IF i > Len(s) \/ s[i] # "\"" THEN JsonError
       ELSE LET key == LoadsString(s, i)
            IN IF ~key.ok THEN JsonError
               ELSE LET c == SkipWs(s, key.i)
                    IN IF c > Len(s) \/ s[c] # ":" THEN JsonError
                       ELSE LET val == LoadsValue(s, c + 1)
                            IN IF ~val.ok THEN JsonError
                               ELSE LET e == SkipWs(s, val.i)
                                        items == Append(acc, [key |-> key.v.s, val |-> val.v])
                                    IN IF e > Len(s) THEN JsonError
                                       ELSE IF s[e] = "," THEN LoadsMembers(s, e + 1, items)
                                       ELSE IF s[e] = "}"
                                       THEN [ok |-> TRUE, v |-> DictVal(items), i |-> e + 1]
                                       ELSE JsonError

\* the elements of an array after "[" or ",", up to its "]"
LoadsElements(s, i0, acc) ==
    LET val == LoadsValue(s, i0)
    IN IF ~val.ok THEN JsonError
       ELSE LET e == SkipWs(s, val.i)
                items == Append(acc, [key |-> <<>>, val |-> val.v])
            IN IF e > Len(s) THEN JsonError
               ELSE IF s[e] = "," THEN LoadsElements(s, e + 1, items)
               ELSE IF s[e] = "]"
               THEN [ok |-> TRUE, v |-> ListVal(items), i |-> e + 1]
               ELSE JsonError

LoadsValue(s, i0) ==
    LET i == SkipWs(s, i0)
    IN IF i > Len(s) THEN JsonError
       ELSE IF s[i] = "\"" THEN LoadsString(s, i)
       ELSE IF IsDigit(s[i]) THEN LoadsNumber(s, i)
       ELSE IF s[i] = "{"
       THEN LET j == SkipWs(s, i + 1)
            IN IF j <= Len(s) /\ s[j] = "}"
               THEN [ok |-> TRUE, v |-> DictVal(<<>>), i |-> j + 1]
               ELSE LoadsMembers(s, i + 1, <<>>)
       ELSE IF s[i] = "["
       THEN LET j == SkipWs(s, i + 1)
            IN IF j <= Len(s) /\ s[j] = "]"
               THEN [ok |-> TRUE, v |-> ListVal(<<>>), i |-> j + 1]
               ELSE LoadsElements(s, i + 1, <<>>)
       ELSE JsonError

\* json.loads(text): the value, or JSONDecodeError (ok = FALSE)
JsonLoads(text) ==
    LET r == LoadsValue(text, 1)
    IN IF r.ok /\ SkipWs(text, r.i) > Len(text) THEN r ELSE JsonError

(***************************************************************************)
(* StreamingParser._parse_event_line                                       *)
(***************************************************************************)
PrefixData == <<"d", "a", "t", "a", ":", " ">>
PrefixEvent == <<"e", "v", "e", "n", "t", ":", " ">>
PrefixId == <<"i", "d", ":", " ">>
PrefixRetry == <<"r", "e", "t", "r", "y", ":", " ">>
DoneText == <<"[", "D", "O", "N", "E", "]">>

NoEvent == [type |-> "none", value |-> NoVal]
DoneEvent == [type |-> "done", value |-> NoVal]

\* (mutant) a payload that is not JSON is dropped
DataEventOrNothing(data) ==
    LET parsed == JsonLoads(data)
    IN IF parsed.ok THEN [type |-> "data", value |-> parsed.v] ELSE NoEvent

\* try: parsed = json.loads(data) ... except json.JSONDecodeError: raw string
DataEvent(data) ==
    LET parsed == JsonLoads(data)
    IN IF parsed.ok THEN [type |-> "data", value |-> parsed.v]
       ELSE [type |-> "data", value |-> StrVal(data)]

\* (mutant) a retry line that is not a number yields Retry(0)
RetryEventZero(text) == [type |-> "retry", value |-> IntVal(IntParse(text).n)]

\* try: return {"type": "retry", "retry": int(line[7:])} except ValueError: pass
RetryEvent(text) ==
    LET r == IntParse(text)
    IN IF r.ok THEN [type |-> "retry", value |-> IntVal(r.n)] ELSE NoEvent

\* the event of a line, NoEvent for None
ParseEventLine(line) ==
    IF StartsWith(line, PrefixData)
    THEN LET data == From(line, 6)
         IN IF Strip(data) = DoneText THEN DoneEvent ELSE DataEvent(data)
    ELSE IF StartsWith(line, PrefixEvent)
    THEN [type |-> "event", value |-> StrVal(From(line, 7))]
    ELSE IF StartsWith(line, PrefixId)
    THEN [type |-> "id", value |-> StrVal(From(line, 4))]
    ELSE IF StartsWith(line, PrefixRetry)
    THEN RetryEvent(From(line, 7))
    ELSE NoEvent

(***************************************************************************)
(* TokenStreamer._extract_token                                            *)
(***************************************************************************)
KeyToken == <<"t", "o", "k", "e", "n">>
KeyContent == <<"c", "o", "n", "t", "e", "n", "t">>
KeyText == <<"t", "e", "x", "t">>
KeyDelta == <<"d", "e", "l", "t", "a">>
KeyMessage == <<"m", "e", "s", "s", "a", "g", "e">>

\* (mutant) content is looked at before token
TokenFieldsContentFirst == <<KeyContent, KeyToken, KeyText, KeyDelta, KeyMessage>>

\* for field in ["token", "content", "text", "delta", "message"]
TokenFields == <<KeyToken, KeyContent, KeyText, KeyDelta, KeyMessage>>

\* field in data
HasKey(d, key) == \E i \in 1..Len(d.items) : d.items[i].key = key

\* data[field]: the last member with that key
DictGet(d, key) == d.items[Max({i \in 1..Len(d.items) : d.items[i].key = key})].val

RECURSIVE ExtractFrom(_, _)
\* the loop over the fields, from the f-th on
ExtractFrom(data, f) ==
    IF f > Len(TokenFields) THEN NoVal
    ELSE LET field == TokenFields[f]
         IN IF HasKey(data, field)
            THEN LET token_data == DictGet(data, field)
                 IN IF token_data.k = "str" THEN token_data
                    ELSE IF token_data.k = "dict" /\ HasKey(token_data, KeyContent)
                    THEN DictGet(token_data, KeyContent)
                    ELSE ExtractFrom(data, f + 1)
            ELSE ExtractFrom(data, f + 1)

\* the token, NoVal for None
ExtractToken(data) ==
    IF data.k = "dict" THEN ExtractFrom(data, 1)
    ELSE IF data.k = "str" THEN data
    ELSE NoVal

\* if token:
Truthy(v) ==
    \/ v.k = "str" /\ v.s # <<>>
    \/ v.k = "int" /\ v.n # 0
    \/ v.k \in {"dict", "list"} /\ v.items # <<>>

\* _extract_token is called on a payload
TokenExtract ==
    /\ xtoken = [called |-> FALSE, token |-> NoVal]
    /\ xtoken' = [called |-> TRUE, token |-> ExtractToken(xdata)]
    /\ UNCHANGED xdata

TokenIdle == xdata = NoVal /\ xtoken = [called |-> FALSE, token |-> NoVal]

(***************************************************************************)
(* The payloads drawn for _extract_token: a dict in which each of the five *)
(* fields is absent or holds a str, a dict with a str under "content", a   *)
(* dict with an int under "content", a dict without "content", or an int;  *)
(* the members in the order of the field list or in the reverse order;     *)
(* and payloads that are not a dict.                                       *)
(***************************************************************************)
FieldShapes == {"absent", "str", "content", "content_int", "no_content", "int"}

FieldValue(f, shape) ==
    IF shape = "str" THEN StrVal(<<"v", DigitChars[f + 1]>>)
    ELSE IF shape = "content"
    THEN DictVal(<<[key |-> KeyContent, val |-> StrVal(<<"c", DigitChars[f + 1]>>)]>>)
    ELSE IF shape = "content_int"
    THEN DictVal(<<[key |-> KeyContent, val |-> IntVal(f)]>>)
    ELSE IF shape = "no_content"
    THEN DictVal(<<[key |-> KeyText, val |-> StrVal(<<"t", DigitChars[f + 1]>>)]>>)
    ELSE IntVal(f)

RECURSIVE FieldItems(_, _)
\* the members for the fields f.. of the list, in that order
FieldItems(shapes, f) ==
    IF f > Len(TokenFields) THEN <<>>
    ELSE (IF shapes[f] = "absent" THEN <<>>
          ELSE <<[key |-> TokenFields[f], val |-> FieldValue(f, shapes[f])]>>)
         \o FieldItems(shapes, f + 1)

Reversed(s) == [i \in 1..Len(s) |-> s[Len(s) + 1 - i]]

DictPayload(shapes, reversed) ==
    DictVal(IF reversed THEN Reversed(FieldItems(shapes, 1)) ELSE FieldItems(shapes, 1))

OtherPayloads ==
    {StrVal(<<"p">>), StrVal(<<>>), IntVal(5), NoVal,
     ListVal(<<[key |-> <<>>, val |-> StrVal(<<"p">>)]>>)}

(***************************************************************************)
(* StreamingParser.parse_stream and TokenStreamer.stream_tokens            *)
(*                                                                         *)
(* The transport cuts the body into chunks of any size.  parse_stream      *)
(* runs from one yield to the next: a step takes a chunk, or takes one     *)
(* line out of the buffer and yields its event to whoever iterates.        *)
(***************************************************************************)
NoSkip == [end |-> 0, held |-> <<>>, n |-> 0]

\* (mutant) a chunk that does not decode empties the buffer
BufferCleared(buffer) == <<>>

\* self.buffer after `except UnicodeDecodeError: continue`
BufferAfterSkip(buffer) == buffer

\* for chunk in response.aiter_bytes(): the chunk is the next n bytes
SseChunk(n) ==
    /\ spc = "running"
    /\ ~HasNewline(sbuffer)
    /\ spos + n <= Len(sstream)
    /\ LET chunk == SubSeq(sstream, spos + 1, spos + n)
       IN /\ spos' = spos + n
          /\ IF Decodes(chunk)
             THEN \* self.buffer += chunk_str
                  /\ sbuffer' = sbuffer \o Decoded(chunk)
                  /\ UNCHANGED sskip
             ELSE \* except UnicodeDecodeError: continue
                  /\ sbuffer' = BufferAfterSkip(sbuffer)
                  /\ sskip' = [end |-> spos + n, held |-> sbuffer, n |-> Len(sevents)]
    /\ UNCHANGED <<sstream, sevents, stokens, spc, smode, scalls>>

\* one pass of `while '\n' in self.buffer`, and what the iterating code does
\* with the event up to its next request
SseLine ==
    /\ spc = "running"
    /\ HasNewline(sbuffer)
    /\ sbuffer' = SplitLine(sbuffer).rest
    /\ LET line == RStripCR(SplitLine(sbuffer).line)
           event == ParseEventLine(line)
           token == ExtractToken(event.value)
       IN IF line = <<>> \/ event = NoEvent
          THEN \* if not line: continue / if event: is false
               UNCHANGED <<sevents, stokens, spc>>
          ELSE /\ sevents' = Append(sevents, event)
               /\ IF smode = "events"
                  THEN UNCHANGED <<stokens, spc>>
                  ELSE IF event.type = "done"
                  THEN \* break
                       spc' = "broke" /\ UNCHANGED stokens
                  ELSE IF event.type = "data" /\ Truthy(token)
                  THEN IF token.k = "str"
                       THEN \* yield token
                            stokens' = Append(stokens, token) /\ UNCHANGED spc
                       ELSE \* self.total_response += token: TypeError
                            spc' = "raised" /\ UNCHANGED stokens
                  ELSE UNCHANGED <<stokens, spc>>
    /\ UNCHANGED <<sstream, spos, smode, sskip, scalls>>

\* the response body is over: the async for ends
SseEnd ==
    /\ spc = "running"
    /\ ~HasNewline(sbuffer)
    /\ spos = Len(sstream)
    /\ spc' = "ended"
    /\ UNCHANGED <<sstream, spos, sbuffer, sevents, stokens, smode, sskip, scalls>>

\* parse_stream is called again on the same StreamingParser, for the
\* response body s: nothing is assigned before the first chunk arrives
SseParseAgain(s) ==
    /\ spc = "ended"
    /\ scalls = 1
    /\ scalls' = 2
    /\ sstream' = s
    /\ spos' = 0
    /\ sevents' = <<>>
    /\ spc' = "running"
    /\ UNCHANGED <<sbuffer, stokens, smode, sskip>>

\* StreamingParser.__init__, TokenStreamer.__init__
SseInit ==
    /\ scalls = 1
    /\ spos = 0
    /\ sbuffer = <<>>
    /\ sevents = <<>>
    /\ stokens = <<>>
    /\ spc = "running"
    /\ sskip = NoSkip

SseIdle == sstream = <<>> /\ smode = "events" /\ SseInit

(***************************************************************************)
(* The response bodies drawn: up to MaxLines lines, each ended by LF.  The *)
(* transport hands them over in chunks of up to MaxChunkLen bytes.         *)
(***************************************************************************)
StreamLines == {
    <<"d", "a", "t", "a", ":", " ", "{", "\"", "t", "o", "k", "e", "n", "\"", ":", "\"", "b", "\"", "}">>,
    <<"d", "a", "t", "a", ":", " ", "[", "D", "O", "N", "E", "]">>,
    <<"d", "a", "t", "a", ":", " ", "x">>,
    <<"e", "v", "e", "n", "t", ":", " ", "m">>,
    <<"i", "d", ":", " ", "7">> \o <<CR>>,
    <<"r", "e", "t", "r", "y", ":", " ", "5">>,
    <<"r", "e", "t", "r", "y", ":", " ", "x">>,
    <<"x", ":", " ", "y">>,
    <<>>,
    <<"d", "a", "t", "a", ":", " ", "\"">> \o <<"C3", "A9", "\"">> }

RECURSIVE StreamsOf(_)
StreamsOf(n) ==
    IF n = 0 THEN {<<>>}
    ELSE LET shorter == StreamsOf(n - 1)
         IN shorter \cup {s \o l \o <<LF>> : s \in shorter, l \in StreamLines}

Streams == StreamsOf(MaxLines)

\* bodies of one line or none, without multi-byte characters, the server
\* having ended the last line or not
PlainLines == {l \in StreamLines : \A i \in 1..Len(l) : l[i] \notin {"C3", "A9"}}
PlainStreams ==
    {s \o t : s \in {<<>>} \cup {l \o <<LF>> : l \in PlainLines},
              t \in {<<>>, <<"d", "a", "t", "a", ":", " ", "x">>}}

(***************************************************************************)
(* HTTPClient (core/http.py)                                               *)
(*                                                                         *)
(* One client, constructed with rate_limiter=None (as FusionClient does),  *)
(* serves one request after the other.  A url is the sequence of its path  *)
(* segments: <<"chat", "c1">> is base_url + "/chat/c1".  A response is     *)
(* [status_code, url, json, value, message, details, retry_after]: json    *)
(* tells whether response.json() returns, value is what it returns for a   *)
(* 2xx body, message and details are the members of an error body, and     *)
(* retry_after is the Retry-After header.  What a request returns or       *)
(* raises is a record [kind, value, message, status_code, details,         *)
(* retry_after, id]; kind is "return" or the name of the exception class,  *)
(* status_code 0 is None.                                                  *)
(***************************************************************************)
HttpMaxAttempts == 3
HttpRetryExceptions == {"NetworkError", "ServerError", "TimeoutError"}

HttpUrls ==
    { <<"chat">>, <<"chat", "c1">>, <<"chat", "c1", "message">>,
      <<"agents">>, <<"agents", "a1">>, <<"health">> }

RECURSIVE UrlText(_)
UrlText(url) == IF url = <<>> THEN "" ELSE "/" \o Head(url) \o UrlText(Tail(url))

\* an Optional value read from the response
Absent == [given |-> FALSE, s |-> ""]
Given(s) == [given |-> TRUE, s |-> s]
NoHeader == [present |-> FALSE, text |-> <<>>]
Header(text) == [present |-> TRUE, text |-> text]
NoRetryAfter == [given |-> FALSE, n |-> 0]

Raised(kind, message, status_code, details, retry_after, id) ==
    [kind |-> kind, value |-> "", message |-> message, status_code |-> status_code,
     details |-> details, retry_after |-> retry_after, id |-> id]
Returned(value) ==
    [kind |-> "return", value |-> value, message |-> "", status_code |-> 0,
     details |-> "{}", retry_after |-> NoRetryAfter, id |-> ""]
HttpNoResult ==
    [kind |-> "none", value |-> "", message |-> "", status_code |-> 0,
     details |-> "{}", retry_after |-> NoRetryAfter, id |-> ""]

\* the exception classes of core/exceptions.py
FusionError(message, status_code, details) ==
    Raised("FusionError", message, status_code, details, NoRetryAfter, "")
AuthenticationError(message) ==
    Raised("AuthenticationError", message, 401, "{}", NoRetryAfter, "")
AuthorizationError(message) ==
    Raised("AuthorizationError", message, 403, "{}", NoRetryAfter, "")
RateLimitError(message, retry_after) ==
    Raised("RateLimitError", message, 429,
           IF retry_after.given /\ retry_after.n # 0 THEN "{retry_after}" ELSE "{}",
           retry_after, "")
AgentNotFoundError(agent_id) ==
    Raised("AgentNotFoundError", "Agent '" \o agent_id \o "' not found", 404,
           "{agent_id}", NoRetryAfter, agent_id)
ChatNotFoundError(chat_id) ==
    Raised("ChatNotFoundError", "Chat '" \o chat_id \o "' not found", 404,
           "{chat_id}", NoRetryAfter, chat_id)
NetworkError(message) == Raised("NetworkError", message, 0, "{}", NoRetryAfter, "")
ServerError(message, status_code) ==
    Raised("ServerError", message, status_code, "{}", NoRetryAfter, "")
FusionTimeoutError(message) ==
    Raised("TimeoutError", message, 408, "{}", NoRetryAfter, "")

\* an exception HTTPClient does not translate: one of httpx raised by
\* stream_post, or the one response.json() raises
Untranslated(kind) == Raised(kind, "", 0, "{}", NoRetryAfter, "")

\* (mutant) every response counts as a success
IsSuccessAlways(status_code) == TRUE

\* response.is_success
IsSuccess(status_code) == 200 <= status_code /\ status_code < 300

\* (mutant) nothing is ever stored
ShouldCacheNever(method, status_code) == FALSE

\* HTTPClient._should_cache
ShouldCache(method, status_code) ==
    hcache /\ method = "GET" /\ 200 <= status_code /\ status_code < 300

\* HTTPClient._get_cache_key
GetCacheKey(method, url, params) ==
    IF hcache THEN GenerateKey(method, UrlText(url), params) ELSE ""

\* "/name/" in url: a segment of that name that another segment follows
UrlContains(url, name) == \E i \in 1..(Len(url) - 1) : url[i] = name

\* url.split("/name/")[-1].split("/")[0]
UrlIdAfter(url, name) ==
    url[Max({i \in 1..(Len(url) - 1) : url[i] = name}) + 1]

\* f"HTTP {status_code}"
HttpStatusText(status_code) == "HTTP " \o ToString(status_code)

\* the message and details _handle_http_error reads from the body
ErrorMessage(response) ==
    IF response.json /\ response.message.given
    THEN response.message.s ELSE HttpStatusText(response.status_code)
ErrorDetails(response) ==
    IF response.json /\ response.details.given THEN response.details.s ELSE "{}"

\* the retry_after _handle_http_error passes to RateLimitError
RetryAfterOf(response) ==
    IF response.retry_after.present /\ IntParse(response.retry_after.text).ok
    THEN [given |-> TRUE, n |-> IntParse(response.retry_after.text).n]
    ELSE NoRetryAfter

\* HTTPClient._handle_http_error: the exception it raises
HandleHttpError(response) ==
    LET status_code == response.status_code
        message == ErrorMessage(response)
        details == ErrorDetails(response)
    IN CASE status_code = 401 -> AuthenticationError(message)
         [] status_code = 403 -> AuthorizationError(message)
         [] status_code = 404 ->
              IF UrlContains(response.url, "agents")
              THEN AgentNotFoundError(UrlIdAfter(response.url, "agents"))
              ELSE IF UrlContains(response.url, "chat")
              THEN ChatNotFoundError(UrlIdAfter(response.url, "chat"))
              ELSE FusionError(message, status_code, details)
         [] status_code = 429 -> RateLimitError(message, RetryAfterOf(response))
         [] status_code \notin {401, 403, 404, 429}
              /\ 400 <= status_code /\ status_code < 500 ->
              FusionError(message, status_code, details)
         [] 500 <= status_code /\ status_code < 600 -> ServerError(message, status_code)
         [] OTHER -> FusionError(message, status_code, details)

\* the except clauses of _make_request
TranslateException(exception) ==
    CASE exception = "httpx.TimeoutException" -> FusionTimeoutError("Request timed out")
      [] exception = "httpx.ConnectError" -> NetworkError("Failed to connect")
      [] OTHER -> NetworkError("HTTP error")

\* (mutant) the decorator retries every exception
HttpCatchesEvery(kind) == TRUE

\* except exceptions as e, with the exceptions _make_request is decorated with
HttpCatches(kind) == kind \in HttpRetryExceptions

\* attempt == max_attempts - 1, with the max_attempts _make_request is
\* decorated with
HttpLastAttempt(n) == n = HttpMaxAttempts - 1

\* what the network does with one call: an exception of httpx, or a response
HttpExceptions == {"httpx.TimeoutException", "httpx.ConnectError", "httpx.ReadError"}
SuccessStatuses == {200, 204}
ErrorStatuses == {302, 400, 401, 403, 404, 429, 500, 503}
RetryAfterHeaders == {NoHeader, Header(<<"6", "0">>), Header(<<" ", "7">>), Header(<<"x">>)}

Response(status_code, url, json, value, message, details, retry_after) ==
    [status_code |-> status_code, url |-> url, json |-> json, value |-> value,
     message |-> message, details |-> details, retry_after |-> retry_after]

\* the responses to a request for url; a 204 has no body
Responses(url) ==
    {Response(200, url, TRUE, v, Absent, Absent, NoHeader) : v \in CacheValues}
    \cup {Response(s, url, FALSE, "", Absent, Absent, NoHeader) : s \in SuccessStatuses}
    \cup {Response(s, url, FALSE, "", Absent, Absent, NoHeader) : s \in ErrorStatuses}
    \cup {Response(429, url, FALSE, "", Absent, Absent, h) : h \in RetryAfterHeaders}
    \cup {Response(s, url, TRUE, "", m, d, NoHeader) :
            s \in ErrorStatuses, m \in {Absent, Given("boom")}, d \in {Absent, Given("{d}")}}

\* the responses the network gives to the requests of one client: one
\* error body for each status
NetStatuses == {400, 401, 403, 404, 429, 500}
NetResponses(url) ==
    {Response(200, url, TRUE, v, Absent, Absent, NoHeader) : v \in CacheValues}
    \cup {Response(s, url, FALSE, "", Absent, Absent, NoHeader) : s \in SuccessStatuses}
    \cup {Response(s, url, TRUE, "", Given("boom"), Absent, NoHeader) : s \in NetStatuses}

NoResponse == Response(0, <<>>, FALSE, "", Absent, Absent, NoHeader)
NetOutcomes(url) ==
    {[raises |-> TRUE, exception |-> e, response |-> NoResponse] : e \in HttpExceptions}
    \cup {[raises |-> FALSE, exception |-> "", response |-> r] : r \in NetResponses(url)}

HttpOps == {"get", "post", "put", "delete", "upload_file", "stream_post"}
RequestUrls == {<<"chat", "c1">>, <<"agents">>}

\* the method each operation passes to _make_request or to stream()
MethodOf(op) ==
    CASE op = "get" -> "GET"
      [] op = "put" -> "PUT"
      [] op = "delete" -> "DELETE"
      [] OTHER -> "POST"

\* the request ends: it returns or raises result
HttpFinish(result) ==
    /\ hpc' = IF result.kind = "return" THEN "returned" ELSE "raised"
    /\ hresult' = result
    /\ hattempt' = 0
    /\ hlast' = HttpNoResult
    /\ hdone' = hdone + 1
    /\ hfailrun' = IF result.kind = "return" THEN 0 ELSE hfailrun + 1

\* the request goes on at pc, e the last exception with_retry has caught
HttpGoOn(pc, e) ==
    /\ hpc' = pc
    /\ hlast' = e
    /\ hresult' = HttpNoResult
    /\ UNCHANGED <<hattempt, hdone, hfailrun>>

\* a request begins
HttpBegin(op, url, use_cache) ==
    /\ hpc \in {"idle", "returned", "raised"}
    /\ hdone < MaxRequests
    /\ hreq' = [op |-> op, method |-> MethodOf(op), url |-> url, use_cache |-> use_cache]
    /\ hcalls' = 0
    /\ hstatus' = 0
    /\ hchunks' = 0
    /\ UNCHANGED <<max_retries, hcache>>

\* (mutant) get() that goes to the network without looking into the cache
HttpGetNoLookup(url, use_cache) ==
    /\ HttpBegin("get", url, use_cache)
    /\ HttpGoOn("calling", HttpNoResult)
    /\ UNCHANGED <<now, cacheVars>>

\* HTTPClient.get, up to its call of _make_request
HttpGet(url, use_cache) ==
    /\ HttpBegin("get", url, use_cache)
    /\ IF use_cache /\ hcache
       THEN /\ CacheGet(GetCacheKey("GET", url, NoParams))
            /\ IF cret' # None THEN HttpFinish(Returned(cret')) ELSE HttpGoOn("calling", HttpNoResult)
       ELSE /\ HttpGoOn("calling", HttpNoResult)
            /\ UNCHANGED <<now, cacheVars>>

\* HTTPClient.post, put, delete and upload_file, up to their call of
\* _make_request
HttpSend(op, url) ==
    /\ op \in {"post", "put", "delete", "upload_file"}
    /\ HttpBegin(op, url, FALSE)
    /\ HttpGoOn("calling", HttpNoResult)
    /\ UNCHANGED <<now, cacheVars>>

\* what get, post, put, delete and upload_file do with the response
\* _make_request returned
HttpComplete(response) ==
    CASE hreq.op = "get" ->
           IF ~response.json
           THEN /\ HttpFinish(Untranslated("JSONDecodeError"))
                /\ UNCHANGED <<now, cacheVars>>
           ELSE /\ HttpFinish(Returned(response.value))
                /\ IF hreq.use_cache /\ ShouldCache("GET", response.status_code)
                   THEN CacheSet(GetCacheKey("GET", hreq.url, NoParams), response.value)
                   ELSE UNCHANGED <<now, cacheVars>>
      [] hreq.op = "delete" /\ response.status_code = 204 ->
           /\ HttpFinish(Returned(None))
           /\ UNCHANGED <<now, cacheVars>>
      [] OTHER ->
           /\ HttpFinish(IF response.json THEN Returned(response.value)
                         ELSE Untranslated("JSONDecodeError"))
           /\ UNCHANGED <<now, cacheVars>>

\* one attempt of the decorated _make_request: the network call, the
\* classification of its outcome, and what with_retry and the caller of
\* _make_request do with it
HttpCall ==
    /\ hpc = "calling"
    /\ hcalls' = hcalls + 1
    /\ \E o \in NetOutcomes(hreq.url) :
         /\ hstatus' = o.response.status_code
         /\ LET failed == o.raises \/ ~IsSuccess(o.response.status_code)
                e == IF o.raises THEN TranslateException(o.exception)
                     ELSE HandleHttpError(o.response)
            IN IF ~failed
               THEN HttpComplete(o.response)
               ELSE IF ~HttpCatches(e.kind) \/ HttpLastAttempt(hattempt)
               THEN /\ HttpFinish(e)
                    /\ UNCHANGED <<now, cacheVars>>
               ELSE /\ HttpGoOn("sleeping", e)
                    /\ UNCHANGED <<now, cacheVars>>
    /\ UNCHANGED <<max_retries, hcache, hreq, hchunks>>

\* asyncio.sleep(backoff_time) returns: the next turn of with_retry's loop
HttpWake ==
    /\ hpc = "sleeping"
    /\ hpc' = "calling"
    /\ hattempt' = hattempt + 1
    /\ UNCHANGED <<now, cacheVars, max_retries, hcache, hreq, hlast, hcalls, hstatus,
                   hchunks, hresult, hdone, hfailrun>>

\* HTTPClient.stream_post, up to self._client.stream(...)
HttpStreamPost(url) ==
    /\ HttpBegin("stream_post", url, FALSE)
    /\ HttpGoOn("opening", HttpNoResult)
    /\ UNCHANGED <<now, cacheVars>>

\* the connection of stream_post: the response head arrives, or httpx raises
HttpStreamOpen ==
    /\ hpc = "opening"
    /\ hcalls' = hcalls + 1
    /\ \E o \in NetOutcomes(hreq.url) :
         /\ hstatus' = o.response.status_code
         /\ IF o.raises THEN HttpFinish(Untranslated(o.exception))
            ELSE IF ~IsSuccess(o.response.status_code)
            THEN HttpFinish(HandleHttpError(o.response))
            ELSE HttpGoOn("streaming", HttpNoResult)
    /\ UNCHANGED <<now, cacheVars, max_retries, hcache, hreq, hchunks>>

\* async for chunk in response.aiter_bytes(): yield chunk
HttpStreamChunk ==
    /\ hpc = "streaming"
    /\ hchunks < MaxChunks
    /\ hchunks' = hchunks + 1
    /\ UNCHANGED <<now, cacheVars, max_retries, hcache, hreq, hpc, hattempt, hlast, hcalls,
                   hstatus, hresult, hdone, hfailrun>>

\* the body ends, or httpx raises while it is read
HttpStreamEnd ==
    /\ hpc = "streaming"
    /\ \E e \in HttpExceptions \cup {""} :
         HttpFinish(IF e = "" THEN Returned(None) ELSE Untranslated(e))
    /\ UNCHANGED <<now, cacheVars, max_retries, hcache, hreq, hcalls, hstatus, hchunks>>

\* the clock advances
HttpTick ==
    /\ now < MaxHttpTime
    /\ now' = now + 1
    /\ UNCHANGED <<cacheVars, httpVars>>

\* HTTPClient.__init__
HttpInit ==
    /\ hreq = [op |-> "none", method |-> "", url |-> <<>>, use_cache |-> FALSE]
    /\ hpc = "idle"
    /\ hattempt = 0
    /\ hlast = HttpNoResult
    /\ hcalls = 0
    /\ hstatus = 0
    /\ hchunks = 0
    /\ hresult = HttpNoResult
    /\ hdone = 0
    /\ hfailrun = 0

\* a client that is constructed and never used
HttpIdle == max_retries = 3 /\ hcache = FALSE /\ HttpInit

\* _handle_http_error is called with a response
ErrorHandle ==
    /\ ~eraised.called
    /\ eraised' = [called |-> TRUE, error |-> HandleHttpError(eresponse)]
    /\ UNCHANGED <<now, eresponse>>

ErrorIdle == eresponse = NoResponse /\ eraised = [called |-> FALSE, error |-> HttpNoResult]

(***************************************************************************)
(* StreamBuffer (utils/streaming.py)                                       *)
(*                                                                         *)
(* self.buffer is an asyncio.Queue(maxsize=max_size), max_size >= 1 (a     *)
(* maxsize <= 0 makes the queue unbounded).  Queue.put waits on a future   *)
(* in the queue's list of putters while the queue is full; Queue.get wakes *)
(* the first putter, which runs later and looks at the queue again.  The   *)
(* items are numbered in the order of the put() calls.  Producers call     *)
(* put(); one consumer calls get(), or iterates get_all() and may stop     *)
(* iterating; close() is called at any time.                               *)
(***************************************************************************)
BufProducers == {"p1", "p2"}

\* (mutant) the queue never counts as full
BufFullNever(q) == FALSE

\* Queue.full()
BufFull(q) == Len(q) >= bmax_size

\* Queue.put_nowait
PutNowait(item) ==
    /\ bqueue' = Append(bqueue, item)
    /\ bput' = Append(bput, item)

\* Queue.get_nowait: the first item leaves the queue for the consumer, and
\* the first waiting putter is woken
GetNowait ==
    /\ bqueue # <<>>
    /\ bqueue' = Tail(bqueue)
    /\ bgot' = Append(bgot, Head(bqueue))
    /\ IF bputters = <<>>
       THEN UNCHANGED <<bputters, bprod>>
       ELSE /\ bputters' = Tail(bputters)
            /\ bprod' = [bprod EXCEPT ![Head(bputters)].pc = "woken"]

\* StreamBuffer.put, up to its return or its suspension in Queue.put
BufPut(p) ==
    /\ bprod[p].pc = "idle"
    /\ bnext < MaxPuts
    /\ bnext' = bnext + 1
    /\ IF bclosed
       THEN UNCHANGED <<bqueue, bput, bputters, bprod>>
       ELSE IF BufFull(bqueue)
       THEN /\ bprod' = [bprod EXCEPT ![p] = [pc |-> "blocked", item |-> bnext + 1]]
            /\ bputters' = Append(bputters, p)
            /\ UNCHANGED <<bqueue, bput>>
       ELSE /\ PutNowait(bnext + 1)
            /\ UNCHANGED <<bputters, bprod>>
    /\ UNCHANGED <<now, bmax_size, bclosed, bcons, bgot, bcut>>

\* a woken putter runs: Queue.put looks at the queue again
BufResume(p) ==
    /\ bprod[p].pc = "woken"
    /\ IF BufFull(bqueue)
       THEN /\ bprod' = [bprod EXCEPT ![p].pc = "blocked"]
            /\ bputters' = Append(bputters, p)
            /\ UNCHANGED <<bqueue, bput>>
       ELSE /\ PutNowait(bprod[p].item)
            /\ bprod' = [bprod EXCEPT ![p] = [pc |-> "idle", item |-> 0]]
            /\ UNCHANGED bputters
    /\ UNCHANGED <<now, bmax_size, bclosed, bcons, bnext, bgot, bcut>>

\* StreamBuffer.get, up to its return or its suspension in Queue.get
BufGet ==
    /\ bcons = "idle"
    /\ IF bqueue = <<>>
       THEN /\ bcons' = "getting"
            /\ UNCHANGED <<bqueue, bgot, bputters, bprod>>
       ELSE /\ GetNowait
            /\ UNCHANGED bcons
    /\ UNCHANGED <<now, bmax_size, bclosed, bnext, bput, bcut>>

\* the consumer suspended in get() runs again once an item is there
BufGetWake ==
    /\ bcons = "getting"
    /\ GetNowait
    /\ bcons' = "idle"
    /\ UNCHANGED <<now, bmax_size, bclosed, bnext, bput, bcut>>

\* the consumer calls get_all() and asks for its first item
BufGetAll ==
    /\ bcons = "idle"
    /\ bcons' = "check"
    /\ UNCHANGED <<now, bmax_size, bqueue, bputters, bclosed, bprod, bnext, bgot, bput, bcut>>

\* get_all at the head of its loop: it ends, yields the first item of the
\* queue, or suspends in wait_for(self.buffer.get(), timeout=1.0)
BufCheck ==
    /\ bcons = "check"
    /\ IF bclosed /\ bqueue = <<>>
       THEN /\ bcons' = "done"
            /\ UNCHANGED <<bqueue, bgot, bputters, bprod>>
       ELSE IF bqueue = <<>>
       THEN /\ bcons' = "waiting"
            /\ UNCHANGED <<bqueue, bgot, bputters, bprod>>
       ELSE /\ GetNowait
            /\ UNCHANGED bcons
    /\ UNCHANGED <<now, bmax_size, bclosed, bnext, bput, bcut>>

\* the consumer suspended in wait_for runs again once an item is there, and
\* get_all yields it
BufWaitTake ==
    /\ bcons = "waiting"
    /\ GetNowait
    /\ bcons' = "check"
    /\ UNCHANGED <<now, bmax_size, bclosed, bnext, bput, bcut>>

\* the timeout of wait_for falls due, whether or not an item has arrived
\* since the consumer suspended: except asyncio.TimeoutError.  On an open
\* buffer get_all waits again.
BufTimeout ==
    /\ bcons = "waiting"
    /\ bclosed
    /\ bcons' = "done"
    /\ UNCHANGED <<now, bmax_size, bqueue, bputters, bclosed, bprod, bnext, bgot, bput, bcut>>

\* the consumer stops iterating get_all
BufAbandon ==
    /\ bcons = "check"
    /\ bcons' = "abandoned"
    /\ UNCHANGED <<now, bmax_size, bqueue, bputters, bclosed, bprod, bnext, bgot, bput, bcut>>

\* StreamBuffer.close
BufClose ==
    /\ ~bclosed
    /\ bclosed' = TRUE
    /\ bcut' = Len(bput)
    /\ UNCHANGED <<now, bmax_size, bqueue, bputters, bprod, bcons, bnext, bgot, bput>>

\* StreamBuffer.__init__
BufInit ==
    /\ bqueue = <<>>
    /\ bputters = <<>>
    /\ bclosed = FALSE
    /\ bprod = [p \in BufProducers |-> [pc |-> "idle", item |-> 0]]
    /\ bcons = "idle"
    /\ bnext = 0
    /\ bgot = <<>>
    /\ bput = <<>>
    /\ bcut = 0

\* a buffer that is constructed and never used
BufIdle == bmax_size = 1 /\ BufInit

(***************************************************************************)
(* FusionClient.get_chat / list_agents (core/client.py) with the cache off *)
(* (enable_cache=False): one acquire() on the client's RateLimiter, then   *)
(* HTTPClient.get, whose _make_request runs under with_retry with the      *)
(* decorator's default backoff (backoff_factor 1.0, jitter on).  The       *)
(* HTTPClient is built without a rate limiter.  One clock tick is 0.1 s.   *)
(***************************************************************************)
TicksPerSecond == 10 * RateBuffer
ClientCaller == "t1"

\* backoff_time = min(1.0 * 2 ** attempt, 60.0) * (0.5 + random.random() * 0.5),
\* in whole ticks
HttpBackoffTimes(n) ==
    LET base == Min({TicksPerSecond * (2 ^ n), 60 * TicksPerSecond})
    IN {d \in 0..base : 2 * d >= base /\ d < base}

\* where the caller stands once acquire() has run as far as it can
AfterAcquire(c) ==
    CASE c.pc = "idle" -> "admitted"
      [] c.pc = "sleeping" -> "acquiring"
      [] OTHER -> "failed"

\* get_chat / list_agents up to the end of the first run of acquire()
ClientGet ==
    /\ fpc = "idle"
    /\ hdone < MaxRequests
    /\ RateAcquire(ClientCaller)
    /\ fpc' = AfterAcquire(rcaller'[ClientCaller])
    /\ UNCHANGED <<cacheVars, httpVars, fwake, sent>>

\* the sleep inside acquire() is over
ClientAcquireWake ==
    /\ fpc = "acquiring"
    /\ RateWake(ClientCaller)
    /\ fpc' = AfterAcquire(rcaller'[ClientCaller])
    /\ UNCHANGED <<cacheVars, httpVars, fwake, sent>>

\* response = await self.http.get(f"/chat/{chat_id}") or self.http.get("/agents")
ClientHttpGet(url) ==
    /\ fpc = "admitted"
    /\ HttpGet(url, TRUE)
    /\ fpc' = "requesting"
    /\ UNCHANGED <<rateVars, fwake, sent>>

\* one attempt of _make_request: the request goes out now
ClientHttpCall ==
    /\ fpc = "requesting"
    /\ HttpCall
    /\ sent' = Append(sent, now)
    /\ IF hpc' = "sleeping"
       THEN fwake' \in {now + d : d \in HttpBackoffTimes(hattempt)} /\ UNCHANGED fpc
       ELSE fwake' = 0 /\ fpc' = "idle"
    /\ UNCHANGED rateVars

\* the backoff sleep of with_retry is over
ClientHttpWake ==
    /\ fpc = "requesting"
    /\ now >= fwake
    /\ HttpWake
    /\ UNCHANGED <<rateVars, clientVars>>

ClientTick ==
    /\ now < MaxClientTime
    /\ now' = now + 1
    /\ UNCHANGED <<cacheVars, rateVars, httpVars, clientVars>>

(***************************************************************************)
(* An HTTPClient built with a rate limiter and a cache: get() looks into   *)
(* the cache, and every attempt of _make_request begins with               *)
(* await self.rate_limiter.acquire().                                      *)
(***************************************************************************)
\* HTTPClient.get, up to its call of _make_request
LimitedGet(url, use_cache) ==
    /\ fpc = "idle"
    /\ HttpGet(url, use_cache)
    /\ UNCHANGED <<rateVars, clientVars>>

\* if self.rate_limiter: await self.rate_limiter.acquire()
LimitedAcquire ==
    /\ hpc = "calling"
    /\ fpc = "idle"
    /\ RateAcquire(ClientCaller)
    /\ fpc' = AfterAcquire(rcaller'[ClientCaller])
    /\ UNCHANGED <<cacheVars, httpVars, fwake, sent>>

\* the rest of the attempt: the request goes out now
LimitedHttpCall ==
    /\ hpc = "calling"
    /\ fpc = "admitted"
    /\ HttpCall
    /\ sent' = Append(sent, now)
    /\ fpc' = "idle"
    /\ UNCHANGED <<rateVars, fwake>>

\* the backoff sleep of with_retry is over
LimitedHttpWake ==
    /\ HttpWake
    /\ UNCHANGED <<rateVars, clientVars>>

LimitedTick ==
    /\ now < MaxRateTime
    /\ now' = now + 1
    /\ UNCHANGED <<cacheVars, rateVars, httpVars, clientVars>>

\* FusionClient.__init__
ClientInit ==
    /\ fpc = "idle"
    /\ fwake = 0
    /\ sent = <<>>

ClientIdle == ClientInit

(***************************************************************************)
(* Specification of the client: get_chat / list_agents calls one after the *)
(* other, rate_limit_window = 1 s.                                         *)
(***************************************************************************)
ClientGetAny == ClientGet /\ UNCHANGED <<keyVars, retryVars, breakerVars, sseVars, tokenVars, errVars, bufVars>>
ClientAcquireWakeAny == ClientAcquireWake /\ UNCHANGED <<keyVars, retryVars, breakerVars, sseVars, tokenVars, errVars, bufVars>>
ClientHttpGetAny ==
    (\E url \in RequestUrls : ClientHttpGet(url)) /\ UNCHANGED <<keyVars, retryVars, breakerVars, sseVars, tokenVars, errVars, bufVars>>
ClientHttpCallAny == ClientHttpCall /\ UNCHANGED <<keyVars, retryVars, breakerVars, sseVars, tokenVars, errVars, bufVars>>
ClientHttpWakeAny == ClientHttpWake /\ UNCHANGED <<keyVars, retryVars, breakerVars, sseVars, tokenVars, errVars, bufVars>>
ClientTickAny == ClientTick /\ UNCHANGED <<keyVars, retryVars, breakerVars, sseVars, tokenVars, errVars, bufVars>>

InitClient ==
    /\ now = 0
    /\ CacheIdle
    /\ KeyIdle
    /\ RetryIdle
    /\ BreakerIdle
    /\ SseIdle
    /\ TokenIdle
    /\ HttpIdle
    /\ ErrorIdle
    /\ BufIdle
    /\ ClientInit
    /\ max_calls \in 1..MaxCalls
    /\ window = TicksPerSecond
    /\ RateInit

NextClient ==
    \/ ClientGetAny
    \/ ClientAcquireWakeAny
    \/ ClientHttpGetAny
    \/ ClientHttpCallAny
    \/ ClientHttpWakeAny
    \/ ClientTickAny

SpecClient == InitClient /\ [][NextClient]_vars

(***************************************************************************)
(* Specification of the HTTP client with a rate limiter of one call per    *)
(* window and a cache of one entry: get() calls one after the other.       *)
(***************************************************************************)
LimitedGetAny ==
    (\E url \in RequestUrls, use_cache \in BOOLEAN : LimitedGet(url, use_cache)) /\ UNCHANGED <<keyVars, retryVars, breakerVars, sseVars, tokenVars, errVars, bufVars>>
LimitedAcquireAny == LimitedAcquire /\ UNCHANGED <<keyVars, retryVars, breakerVars, sseVars, tokenVars, errVars, bufVars>>
LimitedAcquireWakeAny == ClientAcquireWake /\ UNCHANGED <<keyVars, retryVars, breakerVars, sseVars, tokenVars, errVars, bufVars>>
LimitedHttpCallAny == LimitedHttpCall /\ UNCHANGED <<keyVars, retryVars, breakerVars, sseVars, tokenVars, errVars, bufVars>>
LimitedHttpWakeAny == LimitedHttpWake /\ UNCHANGED <<keyVars, retryVars, breakerVars, sseVars, tokenVars, errVars, bufVars>>
LimitedTickAny == LimitedTick /\ UNCHANGED <<keyVars, retryVars, breakerVars, sseVars, tokenVars, errVars, bufVars>>

InitHttpLimited ==
    /\ now = 0
    /\ KeyIdle
    /\ RetryIdle
    /\ BreakerIdle
    /\ SseIdle
    /\ TokenIdle
    /\ ErrorIdle
    /\ BufIdle
    /\ ClientInit
    /\ max_calls = 1
    /\ window = 2
    /\ RateInit
    /\ ttl = 1
    /\ max_size = 1
    /\ CacheInit
    /\ max_retries = 3
    /\ hcache = TRUE
    /\ HttpInit

NextHttpLimited ==
    \/ LimitedGetAny
    \/ LimitedAcquireAny
    \/ LimitedAcquireWakeAny
    \/ LimitedHttpCallAny
    \/ LimitedHttpWakeAny
    \/ LimitedTickAny

SpecHttpLimited == InitHttpLimited /\ [][NextHttpLimited]_vars

(***************************************************************************)
(* Specification of the rate limiter: callers call acquire() concurrently, *)
(* the clock advancing between their steps.                                *)
(***************************************************************************)
RateAcquireAny ==
    (\E c \in RateCallers : RateAcquire(c)) /\ UNCHANGED <<cacheVars, keyVars, retryVars, breakerVars, sseVars, tokenVars, httpVars, errVars, bufVars, clientVars>>
RateWakeAny ==
    (\E c \in RateCallers : RateWake(c)) /\ UNCHANGED <<cacheVars, keyVars, retryVars, breakerVars, sseVars, tokenVars, httpVars, errVars, bufVars, clientVars>>
RateTickAny == RateTick /\ UNCHANGED <<cacheVars, keyVars, retryVars, breakerVars, sseVars, tokenVars, httpVars, errVars, bufVars, clientVars>>

InitRate ==
    /\ now = 0
    /\ CacheIdle
    /\ KeyIdle
    /\ RetryIdle
    /\ BreakerIdle
    /\ SseIdle
    /\ TokenIdle
    /\ HttpIdle
    /\ ErrorIdle
    /\ BufIdle
    /\ ClientIdle
    /\ max_calls \in 0..MaxCalls
    /\ window \in 2..MaxWindow
    /\ RateInit

NextRate ==
    \/ RateAcquireAny
    \/ RateWakeAny
    \/ RateTickAny

SpecRate == InitRate /\ [][NextRate]_vars

(***************************************************************************)
(* Specification of the rate limiter with its queries: can_proceed() and   *)
(* time_until_available() are called between the steps of the callers of   *)
(* acquire().                                                              *)
(***************************************************************************)
RateCanProceedAny == RateCanProceed /\ UNCHANGED <<cacheVars, keyVars, retryVars, breakerVars, sseVars, tokenVars, httpVars, errVars, bufVars, clientVars>>
RateTimeUntilAvailableAny == RateTimeUntilAvailable /\ UNCHANGED <<cacheVars, keyVars, retryVars, breakerVars, sseVars, tokenVars, httpVars, errVars, bufVars, clientVars>>
RateQueryReturnAny == RateQueryReturn /\ UNCHANGED <<cacheVars, keyVars, retryVars, breakerVars, sseVars, tokenVars, httpVars, errVars, bufVars, clientVars>>

NextRateQuery ==
    \/ NextRate
    \/ RateCanProceedAny
    \/ RateTimeUntilAvailableAny
    \/ RateQueryReturnAny

SpecRateQuery == InitRate /\ [][NextRateQuery]_vars

(***************************************************************************)
(* Specification of the rate limiter for liveness: the limiter admits      *)
(* (max_calls >= 1), the clock never stops, and a caller whose sleep is    *)
(* over is resumed in the end (the event loop runs every timer that is     *)
(* due).  The limiter is built when the clock reads MaxRateTime, so every  *)
(* tick is a RateTickOn and time is unbounded; each caller calls           *)
(* acquire() once.                                                         *)
(***************************************************************************)
RateTickOnAny == RateTickOn /\ UNCHANGED <<cacheVars, keyVars, retryVars, breakerVars, sseVars, tokenVars, httpVars, errVars, bufVars, clientVars>>
RateWakeOf(c) == RateWake(c) /\ UNCHANGED <<cacheVars, keyVars, retryVars, breakerVars, sseVars, tokenVars, httpVars, errVars, bufVars, clientVars>>

RateAcquireFairAny ==
    (\E c \in RateCallers : rcaller[c].seq = 0 /\ RateAcquire(c)) /\ UNCHANGED <<cacheVars, keyVars, retryVars, breakerVars, sseVars, tokenVars, httpVars, errVars, bufVars, clientVars>>

InitRateFair ==
    /\ now = MaxRateTime
    /\ CacheIdle
    /\ KeyIdle
    /\ RetryIdle
    /\ BreakerIdle
    /\ SseIdle
    /\ TokenIdle
    /\ HttpIdle
    /\ ErrorIdle
    /\ BufIdle
    /\ ClientIdle
    /\ max_calls \in 1..MaxCalls
    /\ window \in 2..MaxWindow
    /\ RateInit

NextRateFair ==
    \/ RateAcquireFairAny
    \/ RateWakeAny
    \/ RateTickOnAny

SpecRateFair ==
    /\ InitRateFair
    /\ [][NextRateFair]_vars
    /\ WF_vars(RateTickOnAny)
    /\ \A c \in RateCallers : WF_vars(RateWakeOf(c))

(***************************************************************************)
(* Specification of key generation: two requests are drawn, their keys     *)
(* are generated.                                                          *)
(***************************************************************************)
InitKey ==
    /\ now = 0
    /\ CacheIdle
    /\ RateIdle
    /\ RetryIdle
    /\ BreakerIdle
    /\ SseIdle
    /\ TokenIdle
    /\ HttpIdle
    /\ ErrorIdle
    /\ BufIdle
    /\ ClientIdle
    /\ kkeys = <<>>
    /\ \E m \in KeyMethods, u \in KeyUrls,
          p \in {SomeParams(d) : d \in ParamDicts} \cup {NoParams} :
          LET r == [method |-> m, url |-> u, params |-> p]
          IN kreq \in {<<r, r2>> : r2 \in KeyVariants(r)}

\* both keys are generated
KeyGenerate ==
    /\ kkeys = <<>>
    /\ kkeys' = << GenerateKey(kreq[1].method, kreq[1].url, kreq[1].params),
                   GenerateKey(kreq[2].method, kreq[2].url, kreq[2].params) >>
    /\ UNCHANGED <<now, cacheVars, kreq, rateVars, retryVars, breakerVars, sseVars, tokenVars, httpVars, errVars, bufVars, clientVars>>

NextKey == KeyGenerate

SpecKey == InitKey /\ [][NextKey]_vars

(***************************************************************************)
(* Specification of the cache: any sequence of calls, the clock advancing  *)
(* between them.                                                           *)
(***************************************************************************)
CacheGetAny ==
    (\E k \in CacheKeys : CacheGet(k)) /\ UNCHANGED <<keyVars, rateVars, retryVars, breakerVars, sseVars, tokenVars, httpVars, errVars, bufVars, clientVars>>
CacheSetAny ==
    (\E k \in CacheKeys, v \in CacheValues : CacheSet(k, v)) /\ UNCHANGED <<keyVars, rateVars, retryVars, breakerVars, sseVars, tokenVars, httpVars, errVars, bufVars, clientVars>>
CacheInvalidateAny ==
    (\E k \in CacheKeys : CacheInvalidate(k)) /\ UNCHANGED <<keyVars, rateVars, retryVars, breakerVars, sseVars, tokenVars, httpVars, errVars, bufVars, clientVars>>
CacheClearAny == CacheClear /\ UNCHANGED <<keyVars, rateVars, retryVars, breakerVars, sseVars, tokenVars, httpVars, errVars, bufVars, clientVars>>
CacheTickAny == CacheTick /\ UNCHANGED <<keyVars, rateVars, retryVars, breakerVars, sseVars, tokenVars, httpVars, errVars, bufVars, clientVars>>

InitCache ==
    /\ now = 0
    /\ ttl \in 1..MaxTtl
    /\ max_size \in 1..MaxCacheSize
    /\ CacheInit
    /\ KeyIdle
    /\ RateIdle
    /\ RetryIdle
    /\ BreakerIdle
    /\ SseIdle
    /\ TokenIdle
    /\ HttpIdle
    /\ ErrorIdle
    /\ BufIdle
    /\ ClientIdle

NextCache ==
    \/ CacheGetAny
    \/ CacheSetAny
    \/ CacheInvalidateAny
    \/ CacheClearAny
    \/ CacheTickAny

SpecCache == InitCache /\ [][NextCache]_vars

(***************************************************************************)
(* Specification of the cache called from two threads.                     *)
(***************************************************************************)
ThreadCallAny ==
    (\E t \in CacheThreads, op \in ThreadOps, k \in ThreadKeys, v \in CacheValues :
        ThreadCall(t, op,
                   IF op \in {"clear", "stats"} THEN None ELSE k,
                   IF op = "set" THEN v ELSE None))
    /\ UNCHANGED <<keyVars, rateVars, retryVars, breakerVars, sseVars, tokenVars, httpVars, errVars, bufVars, clientVars>>
ThreadLockAny ==
    (\E t \in CacheThreads : ThreadLock(t)) /\ UNCHANGED <<keyVars, rateVars, retryVars, breakerVars, sseVars, tokenVars, httpVars, errVars, bufVars, clientVars>>
ThreadStepAny ==
    (\E t \in CacheThreads : ThreadStep(t)) /\ UNCHANGED <<keyVars, rateVars, retryVars, breakerVars, sseVars, tokenVars, httpVars, errVars, bufVars, clientVars>>
ThreadTickAny == ThreadTick /\ UNCHANGED <<keyVars, rateVars, retryVars, breakerVars, sseVars, tokenVars, httpVars, errVars, bufVars, clientVars>>

NextCacheThreads ==
    \/ ThreadCallAny
    \/ ThreadLockAny
    \/ ThreadStepAny
    \/ ThreadTickAny

InitCacheThreads == InitCache /\ ttl = 1

SpecCacheThreads == InitCacheThreads /\ [][NextCacheThreads]_vars

(***************************************************************************)
(* Specification of with_retry: the decorator's arguments are drawn, the   *)
(* wrapped function is called once.                                        *)
(***************************************************************************)
RetryCallAny == RetryCall /\ UNCHANGED <<cacheVars, keyVars, rateVars, breakerVars, sseVars, tokenVars, httpVars, errVars, bufVars, clientVars>>
RetryWakeAny == RetryWake /\ UNCHANGED <<cacheVars, keyVars, rateVars, breakerVars, sseVars, tokenVars, httpVars, errVars, bufVars, clientVars>>
RetryLoopEndAny == RetryLoopEnd /\ UNCHANGED <<cacheVars, keyVars, rateVars, breakerVars, sseVars, tokenVars, httpVars, errVars, bufVars, clientVars>>

InitRetry ==
    /\ now = 0
    /\ CacheIdle
    /\ KeyIdle
    /\ RateIdle
    /\ BreakerIdle
    /\ SseIdle
    /\ TokenIdle
    /\ HttpIdle
    /\ ErrorIdle
    /\ BufIdle
    /\ ClientIdle
    /\ max_attempts \in 0..MaxAttempts
    /\ backoff_factor \in 1..MaxBackoffFactor
    /\ max_backoff \in 1..MaxBackoffCap
    /\ exceptions \in ExceptionChoices
    /\ jitter \in BOOLEAN
    /\ RetryStart

NextRetry ==
    \/ RetryCallAny
    \/ RetryWakeAny
    \/ RetryLoopEndAny

SpecRetry == InitRetry /\ [][NextRetry]_vars

(***************************************************************************)
(* Specification of the circuit breaker: tasks call execute() on one       *)
(* breaker, the clock advancing between their steps.  The clock starts at  *)
(* 1: time.time() is positive.                                             *)
(***************************************************************************)
BreakerExecuteAny ==
    (\E c \in BreakerCallers : BreakerExecute(c)) /\ UNCHANGED <<cacheVars, keyVars, rateVars, retryVars, sseVars, tokenVars, httpVars, errVars, bufVars, clientVars>>
BreakerReturnAny ==
    (\E c \in BreakerCallers : BreakerReturn(c)) /\ UNCHANGED <<cacheVars, keyVars, rateVars, retryVars, sseVars, tokenVars, httpVars, errVars, bufVars, clientVars>>
BreakerRaiseAny ==
    (\E c \in BreakerCallers : BreakerRaise(c)) /\ UNCHANGED <<cacheVars, keyVars, rateVars, retryVars, sseVars, tokenVars, httpVars, errVars, bufVars, clientVars>>
BreakerTickAny == BreakerTick /\ UNCHANGED <<cacheVars, keyVars, rateVars, retryVars, sseVars, tokenVars, httpVars, errVars, bufVars, clientVars>>

InitBreaker ==
    /\ now = 1
    /\ CacheIdle
    /\ KeyIdle
    /\ RateIdle
    /\ RetryIdle
    /\ SseIdle
    /\ TokenIdle
    /\ HttpIdle
    /\ ErrorIdle
    /\ BufIdle
    /\ ClientIdle
    /\ threshold \in BreakerThresholds
    /\ timeout \in BreakerTimeouts
    /\ BreakerInit

NextBreaker ==
    \/ BreakerExecuteAny
    \/ BreakerReturnAny
    \/ BreakerRaiseAny
    \/ BreakerTickAny

SpecBreaker == InitBreaker /\ [][NextBreaker]_vars

(***************************************************************************)
(* Specification of the stream parser: a response body is drawn, its       *)
(* chunks are parsed by a fresh parser, iterated by the caller or by       *)
(* stream_tokens.                                                          *)
(***************************************************************************)
SseChunkAny ==
    (\E n \in 1..MaxChunkLen : SseChunk(n))
    /\ UNCHANGED <<now, cacheVars, keyVars, rateVars, retryVars, breakerVars, tokenVars, httpVars, errVars, bufVars, clientVars>>
SseLineAny ==
    SseLine /\ UNCHANGED <<now, cacheVars, keyVars, rateVars, retryVars, breakerVars, tokenVars, httpVars, errVars, bufVars, clientVars>>
SseEndAny ==
    SseEnd /\ UNCHANGED <<now, cacheVars, keyVars, rateVars, retryVars, breakerVars, tokenVars, httpVars, errVars, bufVars, clientVars>>

InitSse ==
    /\ now = 0
    /\ CacheIdle
    /\ KeyIdle
    /\ RateIdle
    /\ RetryIdle
    /\ BreakerIdle
    /\ TokenIdle
    /\ HttpIdle
    /\ ErrorIdle
    /\ BufIdle
    /\ ClientIdle
    /\ sstream \in Streams
    /\ smode \in {"events", "tokens"}
    /\ SseInit

NextSse ==
    \/ SseChunkAny
    \/ SseLineAny
    \/ SseEndAny

SpecSse == InitSse /\ [][NextSse]_vars

(***************************************************************************)
(* Specification of a parser that is used twice: FusionClient keeps one    *)
(* StreamingParser and calls parse_stream on it for every streamed         *)
(* response, here for two bodies one after the other.                      *)
(***************************************************************************)
SseParseAgainAny ==
    (\E s \in PlainStreams : SseParseAgain(s))
    /\ UNCHANGED <<now, cacheVars, keyVars, rateVars, retryVars, breakerVars, tokenVars, httpVars, errVars, bufVars, clientVars>>

InitSseReuse ==
    /\ now = 0
    /\ CacheIdle
    /\ KeyIdle
    /\ RateIdle
    /\ RetryIdle
    /\ BreakerIdle
    /\ TokenIdle
    /\ HttpIdle
    /\ ErrorIdle
    /\ BufIdle
    /\ ClientIdle
    /\ sstream \in PlainStreams
    /\ smode = "events"
    /\ SseInit

NextSseReuse ==
    \/ NextSse
    \/ SseParseAgainAny

SpecSseReuse == InitSseReuse /\ [][NextSseReuse]_vars

(***************************************************************************)
(* Specification of token extraction: a payload is drawn, _extract_token   *)
(* is called on it.                                                        *)
(***************************************************************************)
TokenExtractAny ==
    TokenExtract /\ UNCHANGED <<now, cacheVars, keyVars, rateVars, retryVars, breakerVars, sseVars, httpVars, errVars, bufVars, clientVars>>

InitToken ==
    /\ now = 0
    /\ CacheIdle
    /\ KeyIdle
    /\ RateIdle
    /\ RetryIdle
    /\ BreakerIdle
    /\ SseIdle
    /\ HttpIdle
    /\ ErrorIdle
    /\ BufIdle
    /\ ClientIdle
    /\ \/ \E shapes \in [1..Len(TokenFields) -> FieldShapes], reversed \in BOOLEAN :
             xdata = DictPayload(shapes, reversed)
       \/ xdata \in OtherPayloads
    /\ xtoken = [called |-> FALSE, token |-> NoVal]

NextToken == TokenExtractAny

SpecToken == InitToken /\ [][NextToken]_vars

(***************************************************************************)
(* Specification of the HTTP client: requests are made one after the       *)
(* other, the network answering each call as it likes.  The client of      *)
(* SpecHttp has no cache (as FusionClient constructs it) and never reads    *)
(* the clock; the client of SpecHttpCache has a cache of one entry that     *)
(* lives one tick.                                                         *)
(***************************************************************************)
HttpGetAny ==
    (\E url \in RequestUrls, use_cache \in BOOLEAN : HttpGet(url, use_cache))
    /\ UNCHANGED <<keyVars, rateVars, retryVars, breakerVars, sseVars, tokenVars, errVars, bufVars, clientVars>>
HttpSendAny ==
    (\E op \in HttpOps, url \in HttpUrls : HttpSend(op, url))
    /\ UNCHANGED <<keyVars, rateVars, retryVars, breakerVars, sseVars, tokenVars, errVars, bufVars, clientVars>>
HttpCallAny ==
    HttpCall /\ UNCHANGED <<keyVars, rateVars, retryVars, breakerVars, sseVars, tokenVars, errVars, bufVars, clientVars>>
HttpWakeAny ==
    HttpWake /\ UNCHANGED <<keyVars, rateVars, retryVars, breakerVars, sseVars, tokenVars, errVars, bufVars, clientVars>>
HttpStreamPostAny ==
    (\E url \in RequestUrls : HttpStreamPost(url))
    /\ UNCHANGED <<keyVars, rateVars, retryVars, breakerVars, sseVars, tokenVars, errVars, bufVars, clientVars>>
HttpStreamOpenAny ==
    HttpStreamOpen /\ UNCHANGED <<keyVars, rateVars, retryVars, breakerVars, sseVars, tokenVars, errVars, bufVars, clientVars>>
HttpStreamChunkAny ==
    HttpStreamChunk /\ UNCHANGED <<keyVars, rateVars, retryVars, breakerVars, sseVars, tokenVars, errVars, bufVars, clientVars>>
HttpStreamEndAny ==
    HttpStreamEnd /\ UNCHANGED <<keyVars, rateVars, retryVars, breakerVars, sseVars, tokenVars, errVars, bufVars, clientVars>>
HttpTickAny ==
    HttpTick /\ UNCHANGED <<keyVars, rateVars, retryVars, breakerVars, sseVars, tokenVars, errVars, bufVars, clientVars>>

InitHttp ==
    /\ now = 0
    /\ max_retries \in 1..MaxRetries
    /\ hcache = FALSE
    /\ CacheIdle
    /\ HttpInit
    /\ KeyIdle
    /\ RateIdle
    /\ RetryIdle
    /\ BreakerIdle
    /\ SseIdle
    /\ TokenIdle
    /\ ErrorIdle
    /\ BufIdle
    /\ ClientIdle

NextHttp ==
    \/ HttpGetAny
    \/ HttpSendAny
    \/ HttpCallAny
    \/ HttpWakeAny
    \/ HttpStreamPostAny
    \/ HttpStreamOpenAny
    \/ HttpStreamChunkAny
    \/ HttpStreamEndAny

SpecHttp == InitHttp /\ [][NextHttp]_vars

InitHttpCache ==
    /\ now = 0
    /\ max_retries = 3
    /\ hcache = TRUE
    /\ ttl = 1
    /\ max_size = 1
    /\ CacheInit
    /\ HttpInit
    /\ KeyIdle
    /\ RateIdle
    /\ RetryIdle
    /\ BreakerIdle
    /\ SseIdle
    /\ TokenIdle
    /\ ErrorIdle
    /\ BufIdle
    /\ ClientIdle

NextHttpCache ==
    \/ NextHttp
    \/ HttpTickAny

SpecHttpCache == InitHttpCache /\ [][NextHttpCache]_vars

(***************************************************************************)
(* Specification of error classification: a response that is not a         *)
(* success is drawn, _handle_http_error is called with it.                 *)
(***************************************************************************)
ErrorHandleAny ==
    ErrorHandle
    /\ UNCHANGED <<cacheVars, keyVars, rateVars, retryVars, breakerVars, sseVars, tokenVars, httpVars, bufVars, clientVars>>

InitError ==
    /\ now = 0
    /\ \E url \in HttpUrls : eresponse \in {r \in Responses(url) : ~IsSuccess(r.status_code)}
    /\ eraised = [called |-> FALSE, error |-> HttpNoResult]
    /\ CacheIdle
    /\ KeyIdle
    /\ RateIdle
    /\ RetryIdle
    /\ BreakerIdle
    /\ SseIdle
    /\ TokenIdle
    /\ HttpIdle
    /\ BufIdle
    /\ ClientIdle

NextError == ErrorHandleAny

SpecError == InitError /\ [][NextError]_vars

(***************************************************************************)
(* Specification of the stream buffer: two producers and one consumer use  *)
(* one buffer.  SpecBufferFair adds what the event loop guarantees: a task *)
(* that can run does run.  Nothing makes a producer call put(), the        *)
(* consumer call get() or go on iterating, or anyone call close().         *)
(***************************************************************************)
BufPutAny ==
    (\E p \in BufProducers : BufPut(p))
    /\ UNCHANGED <<cacheVars, keyVars, rateVars, retryVars, breakerVars, sseVars, tokenVars, httpVars, errVars, clientVars>>
BufResumeAny ==
    (\E p \in BufProducers : BufResume(p))
    /\ UNCHANGED <<cacheVars, keyVars, rateVars, retryVars, breakerVars, sseVars, tokenVars, httpVars, errVars, clientVars>>
BufGetAny ==
    BufGet /\ UNCHANGED <<cacheVars, keyVars, rateVars, retryVars, breakerVars, sseVars, tokenVars, httpVars, errVars, clientVars>>
BufGetWakeAny ==
    BufGetWake /\ UNCHANGED <<cacheVars, keyVars, rateVars, retryVars, breakerVars, sseVars, tokenVars, httpVars, errVars, clientVars>>
BufGetAllAny ==
    BufGetAll /\ UNCHANGED <<cacheVars, keyVars, rateVars, retryVars, breakerVars, sseVars, tokenVars, httpVars, errVars, clientVars>>
BufCheckAny ==
    BufCheck /\ UNCHANGED <<cacheVars, keyVars, rateVars, retryVars, breakerVars, sseVars, tokenVars, httpVars, errVars, clientVars>>
BufWaitTakeAny ==
    BufWaitTake /\ UNCHANGED <<cacheVars, keyVars, rateVars, retryVars, breakerVars, sseVars, tokenVars, httpVars, errVars, clientVars>>
BufTimeoutAny ==
    BufTimeout /\ UNCHANGED <<cacheVars, keyVars, rateVars, retryVars, breakerVars, sseVars, tokenVars, httpVars, errVars, clientVars>>
BufAbandonAny ==
    BufAbandon /\ UNCHANGED <<cacheVars, keyVars, rateVars, retryVars, breakerVars, sseVars, tokenVars, httpVars, errVars, clientVars>>
BufCloseAny ==
    BufClose /\ UNCHANGED <<cacheVars, keyVars, rateVars, retryVars, breakerVars, sseVars, tokenVars, httpVars, errVars, clientVars>>

InitBuffer ==
    /\ now = 0
    /\ bmax_size \in 1..MaxBufSize
    /\ BufInit
    /\ CacheIdle
    /\ KeyIdle
    /\ RateIdle
    /\ RetryIdle
    /\ BreakerIdle
    /\ SseIdle
    /\ TokenIdle
    /\ HttpIdle
    /\ ErrorIdle
    /\ ClientIdle

NextBuffer ==
    \/ BufPutAny
    \/ BufResumeAny
    \/ BufGetAny
    \/ BufGetWakeAny
    \/ BufGetAllAny
    \/ BufCheckAny
    \/ BufWaitTakeAny
    \/ BufTimeoutAny
    \/ BufAbandonAny
    \/ BufCloseAny

SpecBuffer == InitBuffer /\ [][NextBuffer]_vars

SpecBufferFair ==
    /\ SpecBuffer
    /\ WF_vars(BufResumeAny)
    /\ WF_vars(BufGetWakeAny)
    /\ WF_vars(BufWaitTakeAny)
    /\ WF_vars(BufTimeoutAny)

(***************************************************************************)
(* Claims about FusionCache (checked under SpecCache)                      *)
(***************************************************************************)
\* C1: get(k) on a stored key returns the stored value, and keeps the entry,
\* iff now - stored_at <= ttl; otherwise it returns None and removes the entry
\* from both dicts.  A get(k) right after set(k, v) returns v.
C1_TtlVisibility ==
    [][ /\ \A k \in CacheKeys :
             (cop'.name = "get" /\ cop'.key = k /\ k \in DOMAIN cache) =>
                IF now - cache[k].timestamp <= ttl
                THEN /\ cret' = cache[k].value
                     /\ k \in DOMAIN cache'
                     /\ cache'[k] = cache[k]
                ELSE /\ cret' = None
                     /\ k \notin DOMAIN cache'
                     /\ k \notin AccessKeys(access_times')
        /\ (cop.name = "set" /\ cop'.name = "get" /\ cop'.key = cop.key) =>
                /\ cret' \in CacheValues
                /\ cret' = cache[cop.key].value
      ]_vars

\* C1 witness: a get found its entry older than ttl, removed it, returned None.
C1_Witness ==
    /\ cop.name = "get"
    /\ cop.expired = {cop.key}
    /\ cret = None
    /\ cop.key \notin DOMAIN cache

\* C2: the store never holds more than max_size entries, and a set of a key
\* that is not stored, while every stored entry is within ttl, leaves
\* min(n + 1, max_size) entries where n entries were stored: the
\* (max_size + 1)-th distinct key leaves exactly max_size.
C2_CapacityBound ==
    /\ [](Cardinality(DOMAIN cache) <= max_size)
    /\ [][ (cop'.name = "set" /\ cop'.key \notin DOMAIN cache
               /\ ExpiredKeys(Store) = {}) =>
             Cardinality(DOMAIN cache') =
                Min({Cardinality(DOMAIN cache) + 1, max_size}) ]_vars

\* C2 witness: a set of a new key into a full store of unexpired entries.
C2_Witness ==
    /\ cop.name = "set"
    /\ cop.expired = {}
    /\ Len(cop.lru) = 1
    /\ cop.key \notin Range(cop.lru)
    /\ Cardinality(DOMAIN cache) = max_size

\* C3: every entry that set evicts for capacity has the oldest access time
\* among the entries stored at that moment; an entry's access time is the time
\* of its set or of its last successful get (a successful get sets it to now),
\* and no other call changes it.
C3_LruVictim ==
    [][ /\ cop'.name = "set" =>
             \A i \in 1..Len(cop'.lru) :
                \A j \in (DOMAIN cache \ ExpiredKeys(Store))
                            \ {cop'.lru[m] : m \in 1..i} :
                   AccessTime(access_times, cop'.lru[i])
                      <= AccessTime(access_times, j)
        /\ (cop'.name = "get" /\ cret' # None) =>
             AccessTime(access_times', cop'.key) = now
        /\ cop'.name = "set" =>
             AccessTime(access_times', cop'.key) = now
        /\ \A j \in DOMAIN cache' \ {cop'.key} :
             /\ j \in DOMAIN cache
             /\ AccessTime(access_times', j) = AccessTime(access_times, j)
      ]_vars

\* C3 witness: a set evicted for capacity, choosing between two entries whose
\* access times differ, after the survivor had been refreshed by a get.
C3_Witness ==
    /\ cop.name = "set"
    /\ Len(cop.lru) = 1
    /\ cop.expired = {}
    /\ \E j \in DOMAIN cache \ {cop.key} :
          cache[j].timestamp < AccessTime(access_times, j)

(***************************************************************************)
(* Claims about _generate_key (checked under SpecKey)                      *)
(***************************************************************************)
KeysGenerated == kkeys # <<>>
SameMethodUrl == kreq[1].method = kreq[2].method /\ kreq[1].url = kreq[2].url
SameNames ==
    {e.name : e \in DictItems(kreq[1].params)}
        = {e.name : e \in DictItems(kreq[2].params)}
\* str() applied to the values json cannot serialise
StrOfObjects(items) ==
    { [name |-> e.name,
       value |-> IF e.value.t = "obj" THEN JsonDefault(e.value) ELSE e.value] :
        e \in items }

Sleeping == {c \in RateCallers : rcaller[c].pc = "sleeping"}
\* the admitted calls recorded in the window of `window` ticks that ends at t
AdmittedIn(t) == {i \in 1..Len(admitted) : t - window <= admitted[i].t /\ admitted[i].t <= t}

\* C5: with max_calls >= 1, under any interleaving of callers, no trailing
\* window holds more than max_calls admitted calls (nor does the deque), and
\* every acquire() made is either admitted or suspended: none fails, none is
\* dropped.
C5_SlidingWindowBound ==
    max_calls >= 1 =>
        /\ \A t \in 0..now : Cardinality(AdmittedIn(t)) <= max_calls
        /\ Len(calls) <= max_calls
        /\ \A c \in RateCallers : rcaller[c].pc \in {"idle", "sleeping"}
        /\ issued = Len(admitted) + Cardinality(Sleeping)

\* C5 witness: a full window, a caller suspended behind it, and another
\* caller already admitted after a suspension.
C5_Witness ==
    /\ max_calls >= 1
    /\ Len(calls) = max_calls
    /\ Sleeping # {}
    /\ \E i \in 1..Len(admitted) : admitted[i].sleeps >= 1

\* C6 as stated: from an empty limiter the first max_calls calls never
\* suspend, and the (max_calls + 1)-th call suspends once only.
C6_AsStated ==
    max_calls >= 1 =>
        /\ \A i \in 1..Len(admitted) :
              admitted[i].seq <= max_calls => admitted[i].sleeps = 0
        /\ \A c \in Sleeping : rcaller[c].seq > max_calls
        /\ \A c \in RateCallers :
              rcaller[c].seq = max_calls + 1 => rcaller[c].sleeps <= 1

\* C6 amended: from an empty limiter the first max_calls calls return without
\* suspending.  A call that finds the limiter full suspends for
\* window - (now - oldest) + buffer; when it wakes it is admitted at once, no
\* earlier than its deadline, provided no other call was admitted while it
\* slept (otherwise it may find the limiter full again and sleep again).  A
\* call that finds every recorded call older than window returns at once and
\* leaves only itself recorded.
C6_AdmissionTiming ==
    /\ [](max_calls >= 1 =>
            /\ \A i \in 1..Len(admitted) :
                  admitted[i].seq <= max_calls => admitted[i].sleeps = 0
            /\ \A c \in Sleeping : rcaller[c].seq > max_calls)
    /\ [][ max_calls >= 1 => \A c \in RateCallers :
            \* c suspends in this step
            /\ (rcaller'[c].pc = "sleeping" /\ rcaller'[c] # rcaller[c]) =>
                  /\ Len(Trim(calls)) >= max_calls
                  /\ rcaller'[c].slept = window - (now - Head(Trim(calls))) + RateBuffer
                  /\ rcaller'[c].wake = now + rcaller'[c].slept
                  /\ rcaller'[c].wake > Head(Trim(calls)) + window
                  /\ rcaller'[c].sleeps =
                        (IF rcaller[c].pc = "sleeping" THEN rcaller[c].sleeps ELSE 0) + 1
            \* c wakes in this step and nobody was admitted meanwhile
            /\ (rcaller[c].pc = "sleeping" /\ rcaller'[c] # rcaller[c]
                  /\ rcaller[c].mark = Len(admitted)) =>
                  /\ rcaller'[c].pc = "idle"
                  /\ now >= rcaller[c].wake
                  /\ admitted' = Append(admitted,
                        [t |-> now, seq |-> rcaller[c].seq, sleeps |-> rcaller[c].sleeps])
            \* c enters acquire() and every recorded call is older than window
            /\ (rcaller'[c] # rcaller[c] /\ calls # <<>>
                  /\ \A i \in 1..Len(calls) : now - calls[i] > window) =>
                  /\ calls' = <<now>>
                  /\ rcaller'[c].pc = "idle"
                  /\ rcaller'[c].sleeps =
                        IF rcaller[c].pc = "sleeping" THEN rcaller[c].sleeps ELSE 0
         ]_vars

\* C6 witness: the (max_calls + 1)-th call has slept exactly once and has been
\* admitted, the max_calls calls before it without sleeping.
C6_Witness ==
    /\ max_calls >= 1
    /\ Len(admitted) = max_calls + 1
    /\ admitted[max_calls + 1].seq = max_calls + 1
    /\ admitted[max_calls + 1].sleeps = 1
    /\ \A i \in 1..max_calls : admitted[i].sleeps = 0

(***************************************************************************)
(* Claims about with_retry (checked under SpecRetry)                       *)
(***************************************************************************)
Failed(i) == oplog[i].kind # "ok"
Retryable(i) == Failed(i) /\ oplog[i].kind \in exceptions
Finished == rtpc \in {"returned", "raised"}

\* C7: with max_attempts = N >= 1, an operation that fails with a retryable
\* error on its first k calls and then succeeds, k < N, makes the wrapper
\* return the operation's result after exactly k + 1 calls; an operation that
\* fails with a retryable error at every call is called exactly N times and
\* the error object of its last call is the one raised.
C7_AttemptCount ==
    max_attempts >= 1 =>
        /\ Len(oplog) <= max_attempts
        /\ \A i \in 1..Len(oplog) :
              ~Failed(i) => /\ i = Len(oplog)
                            /\ rtpc = "returned"
                            /\ rtresult = [how |-> "returned", what |-> oplog[i]]
        /\ rtpc = "returned" =>
              /\ oplog # <<>>
              /\ ~Failed(Len(oplog))
              /\ \A i \in 1..(Len(oplog) - 1) : Retryable(i)
        /\ (rtpc = "raised" /\ \A i \in 1..Len(oplog) : Retryable(i)) =>
              /\ Len(oplog) = max_attempts
              /\ rtresult = [how |-> "raised", what |-> oplog[max_attempts]]
        /\ (~Finished /\ \A i \in 1..Len(oplog) : Retryable(i)) =>
              Len(oplog) < max_attempts

\* C7 witness: max_attempts = 3, every call failed with a retryable error, the
\* third error was raised.
C7_Witness ==
    /\ max_attempts = 3
    /\ rtpc = "raised"
    /\ Len(oplog) = 3
    /\ \A i \in 1..3 : Retryable(i)
    /\ rtresult.what = oplog[3]

\* C8: an error whose kind the except clause does not catch ends the wrapper
\* at once: it is the last call made, it is the error raised, no sleep follows
\* it; when it is the first failure the operation was called exactly once.
C8_NonRetryableShortCircuit ==
    \A i \in 1..Len(oplog) :
        (Failed(i) /\ ~Retryable(i)) =>
            /\ i = Len(oplog)
            /\ rtpc = "raised"
            /\ rtresult = [how |-> "raised", what |-> oplog[i]]
            /\ Len(rsleeps) = i - 1

\* C8 witness: a retryable failure, then a failure that is not retryable and
\* is raised with one attempt still left.
C8_Witness ==
    /\ max_attempts = 3
    /\ Len(oplog) = 2
    /\ Retryable(1)
    /\ Failed(2) /\ ~Retryable(2)
    /\ rtpc = "raised"

\* C9: the i-th sleep follows the failure of attempt n = i - 1 < max_attempts - 1
\* and lasts min(backoff_factor * 2^n, max_backoff), times a factor in
\* [0.5, 1.0] when jitter is on; no delay exceeds max_backoff and no sleep
\* follows the final attempt.  (Delays are in units of 1/JitterDen.)
C9_BackoffBounds ==
    /\ \A i \in 1..Len(rsleeps) :
          LET n == i - 1
              base == Min({backoff_factor * (2 ^ n), max_backoff})
          IN /\ n < max_attempts - 1
             /\ Retryable(i)
             /\ jitter => /\ base * JitterDen <= 2 * rsleeps[i]
                          /\ rsleeps[i] <= base * JitterDen
             /\ ~jitter => rsleeps[i] = base * JitterDen
             /\ rsleeps[i] <= max_backoff * JitterDen
    /\ Len(rsleeps) <= Len(oplog)
    /\ (Finished /\ oplog # <<>>) => Len(rsleeps) = Len(oplog) - 1

\* C9 witness: the retries are exhausted after two sleeps, the second one cut
\* down to max_backoff and shortened by the jitter.
C9_Witness ==
    /\ max_attempts = 3
    /\ rtpc = "raised"
    /\ Len(oplog) = 3
    /\ Len(rsleeps) = 2
    /\ jitter
    /\ max_backoff < backoff_factor * 2
    /\ rsleeps[2] < max_backoff * JitterDen

\* C10 (the assertion of test_retry_backoff_timing): with max_attempts = 3,
\* the default jitter (on) and a cap that does not bite, attempt 2 starts at
\* least backoff_factor * 2^0 after attempt 1, and attempt 3 at least
\* backoff_factor * 2^1 after attempt 2.
C10_BackoffLowerBound ==
    (max_attempts = 3 /\ jitter /\ backoff_factor * 2 <= max_backoff) =>
        \A i \in 1..(Len(call_times) - 1) :
            call_times[i + 1] - call_times[i] >= backoff_factor * (2 ^ (i - 1)) * JitterDen

(***************************************************************************)
(* Claims about CircuitBreaker (checked under SpecBreaker)                 *)
(***************************************************************************)
RECURSIVE TrailingFailures(_)
\* the number of operations that failed since the last one that succeeded
TrailingFailures(h) ==
    IF h = <<>> \/ h[Len(h)] # "fail" THEN 0
    ELSE 1 + TrailingFailures(SubSeq(h, 1, Len(h) - 1))

\* a step that is the admission, or the rejection, of an execute() call
ExecuteIssued == bissued' = bissued + 1

\* a step in which a wrapped operation ends in failure
OperationFailed == Len(bhist') = Len(bhist) + 1 /\ bhist'[Len(bhist')] = "fail"

\* C11: when the threshold-th consecutive failed execute() call ends, the
\* state is Open; an execute() issued while the state is Open and no more than
\* timeout has passed since the last failure raises at once, without calling
\* the operation and without changing failure_count or last_failure_time
C11_OpenAndReject ==
    [][ /\ (OperationFailed /\ TrailingFailures(bhist') >= threshold) => state' = "open"
        /\ (ExecuteIssued /\ state = "open" /\ now - last_failure_time <= timeout)
              => /\ bop'.name = "reject"
                 /\ bcaller' = bcaller
                 /\ failure_count' = failure_count
                 /\ last_failure_time' = last_failure_time
                 /\ state' = "open"
      ]_vars

\* a call was rejected by a circuit that threshold failures in a row opened
C11_Witness ==
    /\ bop.name = "reject"
    /\ state = "open"
    /\ TrailingFailures(bhist) = threshold
    /\ threshold > 1

\* the task whose execute() moved the state from Open to HalfOpen ends its
\* operation in this step
ProbeEnds(c) == bcaller[c].pc = "running" /\ bcaller[c].via = "open" /\ bcaller'[c].pc = "idle"

\* C12: once more than timeout has passed since the last failure of an Open
\* circuit, the next execute() moves the state to HalfOpen and calls the
\* operation; if that probe succeeds the state becomes Closed with
\* failure_count = 0; if it fails the state returns to Open with
\* last_failure_time set to the time of that failure, and calls are rejected
\* again until a further timeout has passed
C12_Recovery ==
    [][ /\ (ExecuteIssued /\ state = "open" /\ now - last_failure_time > timeout)
              => /\ state' = "half-open"
                 /\ bop'.name = "invoke"
                 /\ bcaller'[bop'.caller].pc = "running"
        /\ \A c \in BreakerCallers :
              ProbeEnds(c) =>
                 IF bop'.name = "success"
                 THEN state' = "closed" /\ failure_count' = 0
                 ELSE /\ state' = "open"
                      /\ last_failure_time' = now
                      /\ ~CanExecute'
      ]_vars

\* the tasks whose operation is running and was let in by an Open or a
\* HalfOpen circuit
Probes == {c \in BreakerCallers : bcaller[c].pc = "running" /\ bcaller[c].via # "closed"}

\* C13: of the calls that arrive once the timeout of an Open circuit has
\* passed, one is let through as the probe and the others are rejected until
\* it ends: at no time are two operations running that an Open or HalfOpen
\* circuit let in
C13_HalfOpenProbeLimit == Cardinality(Probes) <= 1

(***************************************************************************)
(* Claims about StreamingParser and TokenStreamer (checked under SpecSse)  *)
(***************************************************************************)
RECURSIVE CompleteLines(_)
\* the lines of a text that end with a newline, carriage returns stripped
CompleteLines(text) ==
    IF ~HasNewline(text) THEN <<>>
    ELSE <<RStripCR(SplitLine(text).line)>> \o CompleteLines(SplitLine(text).rest)

RECURSIVE EventsOfLines(_)
\* the events of a sequence of lines, in order
EventsOfLines(lines) ==
    IF lines = <<>> THEN <<>>
    ELSE LET event == ParseEventLine(Head(lines))
         IN (IF Head(lines) = <<>> \/ event = NoEvent THEN <<>> ELSE <<event>>)
            \o EventsOfLines(Tail(lines))

\* the events of the response body parsed as a single chunk
UnsplitEvents == EventsOfLines(CompleteLines(Decoded(sstream)))

RECURSIVE TokensUntilDone(_)
\* the tokens of the data events that precede the first done event
TokensUntilDone(events) ==
    IF events = <<>> \/ Head(events).type = "done" THEN <<>>
    ELSE LET token == ExtractToken(Head(events).value)
         IN (IF Head(events).type = "data" /\ Truthy(token) THEN <<token>> ELSE <<>>)
            \o TokensUntilDone(Tail(events))

IsPrefix(s, t) == Len(s) <= Len(t) /\ SubSeq(t, 1, Len(s)) = s
IsSuffix(s, t) == Len(s) <= Len(t) /\ SubSeq(t, Len(t) - Len(s) + 1, Len(t)) = s

\* C14: the tokens stream_tokens delivers are the tokens of the data: lines of
\* the body that precede the first data: [DONE] line, in order, whatever the
\* chunks; the sequence ends at the Done, or at the end of the body
C14_TokensUntilDone ==
    smode = "tokens" =>
       /\ spc # "raised"
       /\ IsPrefix(stokens, TokensUntilDone(UnsplitEvents))
       /\ spc \in {"ended", "broke"} => stokens = TokensUntilDone(UnsplitEvents)
       /\ spc = "broke" => \E i \in 1..Len(UnsplitEvents) : UnsplitEvents[i] = DoneEvent

\* C15: whatever the chunks, parse_stream on a fresh parser yields the events
\* of the body parsed as a single chunk
C15_ChunkIndependence ==
    /\ smode = "events" => IsPrefix(sevents, UnsplitEvents)
    /\ (smode = "events" /\ spc = "ended") => sevents = UnsplitEvents

\* a state whose next step takes a line out of the buffer, and that line
LineTaken == spc = "running" /\ HasNewline(sbuffer)
TakenLine == RStripCR(SplitLine(sbuffer).line)

IsDoneLine(line) == StartsWith(line, PrefixData) /\ Strip(From(line, 6)) = DoneText
IsJsonLine(line) ==
    StartsWith(line, PrefixData) /\ ~IsDoneLine(line) /\ JsonLoads(From(line, 6)).ok
IsRawLine(line) ==
    StartsWith(line, PrefixData) /\ ~IsDoneLine(line) /\ ~JsonLoads(From(line, 6)).ok

\* C16: a data: line whose payload is neither [DONE] nor valid JSON yields a
\* Data event carrying the raw payload string; nothing is raised and parsing
\* goes on with the following lines
C16_RawDataEvent ==
    [][ (LineTaken /\ IsRawLine(TakenLine))
           => /\ sevents' = Append(sevents, [type |-> "data", value |-> StrVal(From(TakenLine, 6))])
              /\ spc' = "running"
              /\ sbuffer' = SplitLine(sbuffer).rest
      ]_vars

\* the raw payload "x" was yielded as a Data event, and an event of a later
\* line after it
C16_Witness ==
    \E i \in 1..Len(sevents) :
        /\ sevents[i] = [type |-> "data", value |-> StrVal(<<"x">>)]
        /\ i < Len(sevents)

RECURSIVE TokensOfJsonLines(_)
\* the tokens of the data: lines with a JSON payload that precede the first
\* data: [DONE] line
TokensOfJsonLines(lines) ==
    IF lines = <<>> \/ IsDoneLine(Head(lines)) THEN <<>>
    ELSE LET token == ExtractToken(JsonLoads(From(Head(lines), 6)).v)
         IN (IF IsJsonLine(Head(lines)) /\ Truthy(token) THEN <<token>> ELSE <<>>)
            \o TokensOfJsonLines(Tail(lines))

\* C17: a data: line whose payload is not valid JSON contributes nothing to
\* what stream_tokens delivers (stated for the bodies no chunk of which was
\* skipped)
C17_InvalidJsonIgnored ==
    (smode = "tokens" /\ sskip = NoSkip /\ spc \in {"ended", "broke"})
       => stokens = TokensOfJsonLines(CompleteLines(Decoded(sstream)))

\* a step that takes a chunk and fails to decode it
SkipStep == spc = "running" /\ ~HasNewline(sbuffer) /\ sskip' # sskip

\* the text of the chunks after the last skipped one
LaterText == Decoded(SubSeq(sstream, sskip.end + 1, spos))
AfterFirstNewline(text) == IF HasNewline(text) THEN SplitLine(text).rest ELSE <<>>

\* the events parse_stream yielded after the last skipped chunk
LaterEvents == SubSeq(sevents, sskip.n + 1, Len(sevents))

\* the events of the lines that lie wholly in the later chunks: the skipped
\* chunk ended with a newline, or they begin after a newline of a later chunk
CarriedEvents ==
    EventsOfLines(CompleteLines(IF sstream[sskip.end] = LF THEN LaterText
                                ELSE AfterFirstNewline(LaterText)))

\* C18 as stated: a chunk that fails to decode is skipped without raising, the
\* buffer is kept as it was, and every event carried by the later chunks is
\* still yielded, in order
C18_AsStated ==
    [][ /\ SkipStep => (sbuffer' = sbuffer /\ sevents' = sevents /\ spc' = "running")
        /\ (spc' = "ended" /\ sskip.end > 0) => IsSuffix(CarriedEvents, LaterEvents)
      ]_vars

\* C18 (amended): a chunk that fails to decode is skipped without raising and
\* the buffer is kept as it was; the later chunks are parsed as the
\* continuation of the kept buffer content, so every line that begins after
\* the first newline of the later chunks yields its event in order, and the
\* text up to that newline is dispatched joined to the kept content
C18_SkipTolerance ==
    [][ /\ SkipStep => (sbuffer' = sbuffer /\ sevents' = sevents /\ spc' = "running")
        /\ (spc' = "ended" /\ sskip.end > 0)
              => /\ LaterEvents = EventsOfLines(CompleteLines(sskip.held \o LaterText))
                 /\ IsSuffix(EventsOfLines(CompleteLines(AfterFirstNewline(LaterText))),
                             LaterEvents)
      ]_vars

\* the body ended after a chunk was skipped while the buffer held a partial
\* line, and events of later chunks were yielded
C18_Witness ==
    /\ spc = "ended"
    /\ sskip.end > 0
    /\ sskip.held # <<>>
    /\ Len(sevents) > sskip.n

\* C19: a complete line yields at most one event, in line order: event: x
\* gives Event(x), id: x gives Id(x), retry: n gives Retry(n) when n is an
\* integer and nothing otherwise, a blank line and a line with another prefix
\* give nothing; trailing carriage returns are stripped first
C19_LineDispatch ==
    [][ LineTaken =>
          LET line == TakenLine
          IN IF line = <<>> THEN sevents' = sevents
             ELSE IF StartsWith(line, PrefixData)
             THEN Len(sevents') = Len(sevents) + 1 /\ IsPrefix(sevents, sevents')
             ELSE IF StartsWith(line, PrefixEvent)
             THEN sevents' = Append(sevents, [type |-> "event", value |-> StrVal(From(line, 7))])
             ELSE IF StartsWith(line, PrefixId)
             THEN sevents' = Append(sevents, [type |-> "id", value |-> StrVal(From(line, 4))])
             ELSE IF StartsWith(line, PrefixRetry) /\ IntParse(From(line, 7)).ok
             THEN sevents' = Append(sevents, [type |-> "retry",
                                              value |-> IntVal(IntParse(From(line, 7)).n)])
             ELSE sevents' = sevents
      ]_vars

\* the line "id: 7" followed by a carriage return gave Id("7"), and a retry
\* line gave its number
C19_Witness ==
    /\ \E i \in 1..Len(sevents) : sevents[i] = [type |-> "id", value |-> StrVal(<<"7">>)]
    /\ \E i \in 1..Len(sevents) : sevents[i] = [type |-> "retry", value |-> IntVal(5)]

(***************************************************************************)
(* Claims about _extract_token (checked under SpecToken)                   *)
(***************************************************************************)
ClaimedOrder == <<KeyToken, KeyContent, KeyText, KeyDelta, KeyMessage>>

\* the field is present with a string value or with a dict containing content
Qualifies(d, key) ==
    /\ HasKey(d, key)
    /\ \/ DictGet(d, key).k = "str"
       \/ DictGet(d, key).k = "dict" /\ HasKey(DictGet(d, key), KeyContent)

ClaimedToken(d) ==
    IF d.k = "dict"
    THEN IF \E f \in 1..Len(ClaimedOrder) : Qualifies(d, ClaimedOrder[f])
         THEN LET first == Min({f \in 1..Len(ClaimedOrder) : Qualifies(d, ClaimedOrder[f])})
                  v == DictGet(d, ClaimedOrder[first])
              IN IF v.k = "str" THEN v ELSE DictGet(v, KeyContent)
         ELSE NoVal
    ELSE IF d.k = "str" THEN d
    ELSE NoVal

\* C20: for a dict payload the token comes from the first of token, content,
\* text, delta, message that is present with a string value or with a dict
\* containing content; a str payload is returned unchanged; any other payload
\* gives None
C20_TokenPriority == xtoken.called => xtoken.token = ClaimedToken(xdata)

\* token is present but is neither a str nor a dict with content, and the
\* token was taken from the content of delta
C20_Witness ==
    /\ xtoken.called
    /\ xdata.k = "dict"
    /\ HasKey(xdata, KeyToken)
    /\ ~Qualifies(xdata, KeyToken)
    /\ HasKey(xdata, KeyDelta)
    /\ DictGet(xdata, KeyDelta).k = "dict"
    /\ HasKey(DictGet(xdata, KeyDelta), KeyContent)
    /\ xtoken.token = DictGet(DictGet(xdata, KeyDelta), KeyContent)

(***************************************************************************)
(* Claims about HTTPClient (checked under SpecHttpCache and SpecHttp)      *)
(***************************************************************************)
\* the step puts a new entry, or another entry, under some key
StoresEntry == \E k \in DOMAIN cache' : k \notin DOMAIN cache \/ cache'[k] # cache[k]

\* the step is a network call of the request in progress
NetworkCall == hcalls' = hcalls + 1

HasSegment(url, name) == \E i \in 1..Len(url) : url[i] = name

\* the retry_after the claim gives a 429: the integer of the Retry-After
\* header, absent when the header is missing or is no integer
ClaimedRetryAfter(response) ==
    IF response.retry_after.present /\ IntParse(response.retry_after.text).ok
    THEN [given |-> TRUE, n |-> IntParse(response.retry_after.text).n]
    ELSE [given |-> FALSE, n |-> 0]

\* C22: every response that is not a 2xx raises one typed error: 401
\* AuthenticationError, 403 AuthorizationError, 404 AgentNotFoundError when
\* the path has an agents segment or ChatNotFoundError when it has a chat
\* segment, 429 RateLimitError with the integer of the Retry-After header,
\* any other 4xx FusionError with status, message and details, 5xx ServerError
C22_ErrorClassification ==
    eraised.called =>
      LET status == eresponse.status_code
          e == eraised.error
      IN /\ e.kind \notin {"none", "return"}
         /\ status = 401 => e.kind = "AuthenticationError"
         /\ status = 403 => e.kind = "AuthorizationError"
         /\ status = 404 /\ HasSegment(eresponse.url, "agents") =>
              e.kind = "AgentNotFoundError"
         /\ status = 404 /\ ~HasSegment(eresponse.url, "agents")
              /\ HasSegment(eresponse.url, "chat") => e.kind = "ChatNotFoundError"
         /\ status = 429 =>
              e.kind = "RateLimitError" /\ e.retry_after = ClaimedRetryAfter(eresponse)
         /\ status \in 400..499 \ {401, 403, 404, 429} =>
              /\ e.kind = "FusionError"
              /\ e.status_code = status
              /\ e.message = ErrorMessage(eresponse)
              /\ e.details = ErrorDetails(eresponse)
         /\ status \in 500..599 => e.kind = "ServerError" /\ e.status_code = status

(***************************************************************************)
(* Claims about retries, streaming and the circuit breaker in HTTPClient   *)
(* (checked under SpecHttp)                                                *)
(***************************************************************************)
RetryableKinds == {"NetworkError", "TimeoutError", "ServerError"}

\* the response of that status the network gave to the request in progress
AnsweredWith(status) == CHOOSE r \in NetResponses(hreq.url) : r.status_code = status

\* the error the last network call of the step ended in: the exception the
\* request raised, or the one with_retry caught
FailureOfStep == IF hpc' = "raised" THEN hresult' ELSE hlast'

\* a network call of a request that is not streamed fails in this step
CallFails == NetworkCall /\ hreq.op # "stream_post" /\ hpc' \in {"raised", "sleeping"}

\* C23: a network call of a non-streaming request that fails with a Network,
\* Timeout or Server error is followed by the backoff and another attempt
\* (as long as the attempt limit is not reached); a call answered with 401,
\* 403, 404, 429 or another 4xx is the last call of the request (the only
\* one when it is the first), and the error classified from the response is
\* raised to the caller in the same step
C23_RetryScope ==
    [][ CallFails =>
          /\ FailureOfStep.kind \in RetryableKinds /\ hcalls' < HttpMaxAttempts =>
               hpc' = "sleeping" /\ hattempt' < HttpMaxAttempts - 1
          /\ hstatus' \in 400..499 =>
               /\ hpc' = "raised"
               /\ hattempt = 0 => hcalls' = 1
               /\ hresult' = HandleHttpError(AnsweredWith(hstatus'))
               /\ hresult'.kind \notin RetryableKinds
      ]_vars

\* a request was attempted again after a retryable failure and then answered
\* with 404, which it raised without a third attempt
C23_Witness ==
    /\ hreq.op \in {"get", "post"}
    /\ hpc = "raised"
    /\ hcalls = 2
    /\ hstatus = 404
    /\ hresult.kind \in {"AgentNotFoundError", "ChatNotFoundError", "FusionError"}

\* C24: the number of network calls made for one request never exceeds
\* max_retries, and equals it when every attempt failed with a retryable
\* error
C24_RetryBudget ==
    /\ hcalls <= max_retries
    /\ hpc = "raised" /\ hreq.op # "stream_post" /\ hresult.kind \in RetryableKinds =>
         hcalls = max_retries

C26_StreamRetry ==
    hreq.op = "stream_post" =>
      /\ hpc = "raised" /\ hchunks = 0 /\ (hstatus = 0 \/ hstatus \in 500..599) =>
           hcalls = HttpMaxAttempts
      /\ hchunks > 0 => hcalls = 1

\* C27: after threshold requests in a row have failed, no network call is
\* made for a further request (the clock of SpecHttp stands still, so that no
\* timeout has elapsed), whatever the threshold of the breaker
C27_BreakerGate ==
    [][ \A t \in BreakerThresholds : hfailrun >= t => ~NetworkCall ]_vars

(***************************************************************************)
(* Claims about StreamBuffer (checked under SpecBuffer and SpecBufferFair) *)
(***************************************************************************)
\* a put() call is made in this step
PutCalled == bnext' = bnext + 1

\* an item enters the queue in this step
ItemEnters == bput' # bput

\* a producer suspends in this step
ProducerSuspends == \E p \in BufProducers : bprod'[p].pc = "blocked" /\ bprod[p].pc # "blocked"

C29_ProducerReleased ==
    \A p \in BufProducers :
      (bclosed /\ bcons = "abandoned" /\ bprod[p].pc # "idle") ~> (bprod[p].pc = "idle")

\* C30: when get_all() has ended, every item that had entered the buffer
\* when close() was called has been handed to the consumer; a put() called
\* on a closed buffer changes nothing
C30_DrainAll ==
    [][ /\ bcons' = "done" => Len(bgot') >= bcut'
        /\ PutCalled /\ bclosed => UNCHANGED <<bqueue, bputters, bprod, bput>>
      ]_vars


\* C31: with max_calls <= 0 no acquire() ever returns, records a call or
\* ends with an error
C31_NeverAdmits ==
    max_calls <= 0 =>
      /\ admitted = <<>>
      /\ calls = <<>>
      /\ \A c \in RateCallers : rcaller[c].pc # "error"

\* a can_proceed() or a time_until_available() is made in this step
QueryMade == rquery.op = "none" /\ rquery'.op # "none"

\* an acquire() entered on the deque q returns without sleeping
AcquireAdmits(q) ==
    LET t == Trim(q)
    IN ~(Len(t) >= max_calls /\ (t = <<>> \/ SleepTime(t) > 0))

\* C32: with max_calls >= 1, a query is one step that suspends nobody and
\* records no call; time_until_available() returns 0 exactly when an
\* acquire() made right after it is admitted without sleeping, and otherwise
\* the positive time until the oldest recorded call is window old
C32_Queries ==
    [][ QueryMade /\ max_calls >= 1 =>
          /\ rcaller' = rcaller /\ admitted' = admitted /\ issued' = issued
          /\ calls' = Trim(calls)
          /\ rquery'.ok <=> AcquireAdmits(calls')
          /\ rquery'.op = "time_until_available" =>
               /\ rquery'.t = 0 <=> AcquireAdmits(calls')
               /\ rquery'.t # 0 =>
                    /\ rquery'.t > 0
                    /\ calls' # <<>>
                    /\ rquery'.t = Head(calls') + window - now
      ]_vars

\* C33: with max_calls >= 1 and the clock advancing, every acquire() made
\* returns in the end, its call recorded; no acquire() ends with an error
C33_EveryAcquireReturns ==
    /\ [](\A c \in RateCallers : rcaller[c].pc # "error")
    /\ [][ Len(admitted') > Len(admitted) =>
             calls' # <<>> /\ calls'[Len(calls')] = now ]_vars
    /\ \A c \in RateCallers : (rcaller[c].seq # 0) ~> (rcaller[c].pc = "idle")

\* every caller has made its acquire() and all have returned, one of them
\* after more than one sleep
C33_Witness ==
    /\ \A c \in RateCallers : rcaller[c].seq # 0 /\ rcaller[c].pc = "idle"
    /\ Len(admitted) = Cardinality(RateCallers)
    /\ \E i \in 1..Len(admitted) : admitted[i].sleeps >= 2

(***************************************************************************)
(* Claims about FusionCache under threads (checked under SpecCacheThreads) *)
(***************************************************************************)
\* what the call th does to the store st when nothing runs in between
CallEffect(th, st) ==
    LET k == th.key
    IN CASE th.op = "get" ->
              IF k \notin DOMAIN st.c THEN st
              ELSE IF IsExpired(st.c[k].timestamp) THEN PopKey(st, k)
              ELSE [c |-> st.c, a |-> DictPut(st.a, k, now)]
         [] th.op = "set" ->
              StoreItem(EvictWhileFull(EvictExpired(st)), k, th.value, now)
         [] th.op = "invalidate" ->
              IF k \in DOMAIN st.c THEN PopKey(st, k) ELSE st
         [] th.op = "clear" -> NoSnap
         [] OTHER -> st

Inside(t) == cthread[t].pc \notin {"idle", "waiting"}

\* C34: only the thread that holds the lock is inside a method body; while
\* it is, no step of another thread changes the two dicts; when it releases
\* the lock the dicts are what its call makes of the dicts it found, as if
\* the call were one step; and whenever the lock is free the two dicts have
\* the same keys
C34_CacheAtomicity ==
    /\ [](\A t \in CacheThreads : Inside(t) => lock = t)
    /\ [](lock = Free => DOMAIN cache = AccessKeys(access_times))
    /\ [][ /\ lock # Free /\ cthread'[lock] = cthread[lock] =>
                UNCHANGED <<cache, access_times>>
           /\ lock # Free /\ lock' = Free =>
                [c |-> cache', a |-> access_times'] = CallEffect(cthread[lock], csnap)
         ]_vars

\* a set() that evicts has removed a key from _cache and not yet from
\* _access_times, while the other thread waits for the lock with a get() of
\* that key
C34_Witness ==
    \E t, u \in CacheThreads :
      /\ lock = t
      /\ cthread[t].op = "set"
      /\ cthread[t].pc \in {"evict_expired_access", "evict_lru_access"}
      /\ DOMAIN cache # AccessKeys(access_times)
      /\ cthread[u].pc = "waiting"
      /\ cthread[u].op = "get"
      /\ cthread[u].key = Head(cthread[t].todo)

(***************************************************************************)
(* Further claims about CircuitBreaker (checked under SpecBreaker)         *)
(***************************************************************************)
\* C35: the circuit never goes from open to closed in one step; the call
\* whose success closes it was admitted in the half-open state
C35_NoOpenToClosed ==
    [][ /\ state = "open" => state' # "closed"
        /\ state # "closed" /\ state' = "closed" =>
             \E c \in BreakerCallers :
               /\ bcaller[c].pc # "idle" /\ bcaller'[c].pc = "idle"
               /\ bcaller[c].via = "half-open"
      ]_vars

(***************************************************************************)
(* Claims about FusionClient (checked under SpecClient)                    *)
(***************************************************************************)
\* the network calls made in the window of `window` ticks that ends at t
SentIn(t) == {i \in 1..Len(sent) : t - window <= sent[i] /\ sent[i] <= t}

\* C36: no trailing window holds more than max_calls network calls, the
\* retries counted
C36_EndToEndRateBound ==
    \A t \in 0..now : Cardinality(SentIn(t)) <= max_calls

(***************************************************************************)
(* Claims about HTTPClient with a rate limiter (checked under              *)
(* SpecHttpLimited)                                                        *)
(***************************************************************************)
\* the cache holds an entry under the key of GET url that has not expired
CacheHolds(url) ==
    LET k == GetCacheKey("GET", url, NoParams)
    IN k \in DOMAIN cache /\ ~IsExpired(cache[k].timestamp)

\* a get(url) with use_cache is called in this step
GetCalled(url) ==
    /\ hpc \in {"idle", "returned", "raised"}
    /\ hdone' = hdone + 1 \/ hpc' = "calling"
    /\ hreq'.op = "get" /\ hreq'.url = url /\ hreq'.use_cache

\* C37: a get() with use_cache whose key has an unexpired entry in the cache
\* returns the cached value in the step of its call: no acquire() is made,
\* no call is recorded by the limiter and no network call is made
C37_HitShortCircuit ==
    [][ \A url \in RequestUrls :
          GetCalled(url) /\ CacheHolds(url) =>
            /\ hpc' = "returned"
            /\ hresult' = Returned(cache[GetCacheKey("GET", url, NoParams)].value)
            /\ hcalls' = 0
            /\ UNCHANGED <<calls, admitted, issued, rcaller, fpc, sent>>
      ]_vars

\* a get() has been answered from the cache while the limiter was full: the
\* one network call so far is the one that filled the cache
C37_Witness ==
    /\ hpc = "returned"
    /\ hreq.op = "get"
    /\ hcalls = 0
    /\ hdone = 2
    /\ Len(sent) = 1
    /\ Len(calls) = max_calls
    /\ cop.name = "get"
    /\ cret # None

(***************************************************************************)
(* Further claims about FusionCache (checked under SpecCache)              *)
(***************************************************************************)
\* C38: a set of a key that is stored leaves the key stored with the time of
\* the set, and every other entry that has not expired stays as it was
C38_OverwriteReplaces ==
    [][ cop'.name = "set" /\ cop'.key \in DOMAIN cache =>
          /\ cop'.key \in DOMAIN cache'
          /\ cache'[cop'.key].timestamp = now
          /\ \A j \in (DOMAIN cache \ ExpiredKeys(Store)) \ {cop'.key} :
               j \in DOMAIN cache' /\ cache'[j] = cache[j]
      ]_vars

(***************************************************************************)
(* Claims about a StreamingParser used for several streams (checked under  *)
(* SpecSseReuse)                                                           *)
(***************************************************************************)
\* C39: when a parse_stream call has consumed its stream, the events it
\* produced are those a fresh parser produces for the bytes of that stream
C39_StreamIsolation ==
    spc = "ended" => sevents = UnsplitEvents


\* C40: for every value of max_attempts, a finished call of the wrapped
\* function has invoked the operation at least once and ended with the outcome
\* of the operation's last call: its result returned or its error raised.
C40_AlwaysRunsOperation ==
    Finished =>
        /\ oplog # <<>>
        /\ rtresult.what = oplog[Len(oplog)]
        /\ rtresult.how = (IF Failed(Len(oplog)) THEN "raised" ELSE "returned")

====
